---------------------------- MODULE Spec2Model ----------------------------
(***************************************************************************)
(* AskSIEM (src/app.py): the natural-language query pipeline, and the      *)
(* event sources of models.py, data_generator.py and api_clients.py.       *)
(*                                                                         *)
(*   NaturalLanguageProcessor  parse_query, _detect_intent,                *)
(*                             _extract_entities, _suggest_chart_types     *)
(*   SecurityDataGenerator     _generate_sample_data, get_filtered_data,   *)
(*                             _filter_by_time                             *)
(*   AnalyticsEngine           process_query, _analyze_events and the      *)
(*                             blocks of the intents, _generate_insights,  *)
(*                             _generate_summary, _prepare_chart_data      *)
(*   handlers                  process_query (/api/query),                 *)
(*                             search_events (/api/search)                 *)
(*   SecurityEvent             to_dict                                     *)
(*   AdvancedDataGenerator     generate_training_data, _create_event       *)
(*   ElasticSecurityClient     get_sample_security_events                  *)
(*                                                                         *)
(* A text is a sequence of one-character strings, so that the regular      *)
(* expressions of the pattern tables are matched character by character    *)
(* the way re.search matches them, and int() is a real conversion of a     *)
(* decimal numeral.                                                        *)
(***************************************************************************)
EXTENDS Integers, Sequences, FiniteSets, TLC

VARIABLES
    pc,               \* which operation has run: "start", "parsed", "filtered", ...
    query,            \* the text handed to parse_query
    parsed_query,     \* the value parse_query returned
    sample_data,      \* SecurityDataGenerator.sample_data, the event store
    now,              \* the UTC wall clock, in ticks since the midnight of the store's base day
    query_context,    \* the entities / filters handed to get_filtered_data
    time_filtered,    \* get_filtered_data's filtered_data after the time filter
    filtered_events,  \* the value get_filtered_data returned
    refiltered,       \* the filter applied to its own output
    sort_kind,        \* how the sort of the installed numpy orders equal keys
    analysis,         \* the value _analyze_events returned
    result,           \* the value AnalyticsEngine.process_query returned
    chart_data,       \* the value _prepare_chart_data returned
    requests,         \* the requests the server has accepted, each with its position
    generated,        \* the events list an event source is building or has returned
    security_events,  \* the SecurityEvent objects _create_event has returned
    outcome,          \* how the call of the event source ended: "" while it runs
    other_context,    \* the entities of a second call of get_filtered_data
    other_filtered    \* the value that second call returned

vars == << pc, query, parsed_query, sample_data, now, query_context,
           time_filtered, filtered_events, refiltered, sort_kind, analysis,
           result, chart_data, requests, generated, security_events, outcome,
           other_context, other_filtered >>

nlp_vars == << query, parsed_query >>
filter_vars == << sample_data, now, query_context, time_filtered,
                  filtered_events, refiltered >>
agg_vars == << sort_kind, analysis >>
engine_vars == << result, chart_data, requests >>
source_vars == << generated, security_events, outcome >>
compare_vars == << other_context, other_filtered >>

\* Python's None
None == "<None>"

(***************************************************************************)
(* Regular expressions (module re), for the constructs app.py uses:        *)
(* literals, .* , \s+ , (\d+) and an optional character x?                 *)
(***************************************************************************)
Lit(s) == [k |-> "lit", s |-> s]
Opt(c) == [k |-> "opt", s |-> << c >>]
AnyRun == [k |-> "any", s |-> << >>]
WsRun == [k |-> "ws", s |-> << >>]
NumGroup == [k |-> "num", s |-> << >>]

Digits == {"0", "1", "2", "3", "4", "5", "6", "7", "8", "9"}
Whitespace == {" ", "\t", "\n", "\r", "\f"}

\* does character c belong to the class of run element k
InClass(k, c) ==
    CASE k = "any" -> c # "\n"
      [] k = "ws" -> c \in Whitespace
      [] k = "num" -> c \in Digits

\* .* may be empty, \s+ and \d+ take at least one character
MinRun(k) == IF k = "any" THEN 0 ELSE 1

\* length of the longest run of class k that starts at pos
RECURSIVE RunLen(_, _, _)
RunLen(text, pos, k) ==
    IF pos <= Len(text) /\ InClass(k, text[pos])
    THEN 1 + RunLen(text, pos + 1, k)
    ELSE 0

NoMatch == [ok |-> FALSE, cap |-> << >>]

\* The backtracking matcher: elements i.. of pat against text from pos.
\* A run is greedy: the longest run is tried first, then shorter ones.
\* cap is the text of group 1 so far.
RECURSIVE MatchFrom(_, _, _, _, _)
RECURSIVE TryRun(_, _, _, _, _, _)
MatchFrom(pat, i, text, pos, cap) ==
    IF i > Len(pat) THEN [ok |-> TRUE, cap |-> cap]
    ELSE LET e == pat[i] IN
      CASE e.k = "lit" ->
             IF /\ pos + Len(e.s) - 1 <= Len(text)
                /\ SubSeq(text, pos, pos + Len(e.s) - 1) = e.s
             THEN MatchFrom(pat, i + 1, text, pos + Len(e.s), cap)
             ELSE NoMatch
        [] e.k = "opt" ->
             LET skip == MatchFrom(pat, i + 1, text, pos, cap) IN
             IF pos <= Len(text) /\ text[pos] = e.s[1]
             THEN LET take == MatchFrom(pat, i + 1, text, pos + 1, cap) IN
                  IF take.ok THEN take ELSE skip
             ELSE skip
        [] OTHER -> TryRun(pat, i, text, pos, RunLen(text, pos, e.k), cap)

TryRun(pat, i, text, pos, n, cap) ==
    IF n < MinRun(pat[i].k) THEN NoMatch
    ELSE LET r == MatchFrom(pat, i + 1, text, pos + n,
                            IF pat[i].k = "num"
                            THEN SubSeq(text, pos, pos + n - 1) ELSE cap) IN
         IF r.ok THEN r ELSE TryRun(pat, i, text, pos, n - 1, cap)

\* re.search(pattern, text): the match at the leftmost position that has one
RECURSIVE SearchFrom(_, _, _)
SearchFrom(pat, text, pos) ==
    IF pos > Len(text) + 1 THEN NoMatch
    ELSE LET r == MatchFrom(pat, 1, text, pos, << >>) IN
         IF r.ok THEN r ELSE SearchFrom(pat, text, pos + 1)

re_search(pat, text) == SearchFrom(pat, text, 1)

\* int(s) of a decimal numeral
DigitValue(c) ==
    CASE c = "0" -> 0 [] c = "1" -> 1 [] c = "2" -> 2 [] c = "3" -> 3
      [] c = "4" -> 4 [] c = "5" -> 5 [] c = "6" -> 6 [] c = "7" -> 7
      [] c = "8" -> 8 [] c = "9" -> 9

RECURSIVE int(_)
int(s) ==
    IF s = << >> THEN 0
    ELSE 10 * int(SubSeq(s, 1, Len(s) - 1)) + DigitValue(s[Len(s)])

\* str.lower() on the letters of the texts
UpperCase == << "A", "B", "C", "D", "E", "F", "G", "H", "I", "J", "K", "L", "M",
                "N", "O", "P", "Q", "R", "S", "T", "U", "V", "W", "X", "Y", "Z" >>
LowerCase == << "a", "b", "c", "d", "e", "f", "g", "h", "i", "j", "k", "l", "m",
                "n", "o", "p", "q", "r", "s", "t", "u", "v", "w", "x", "y", "z" >>

lower_char(c) ==
    IF \E i \in 1..Len(UpperCase) : UpperCase[i] = c
    THEN LowerCase[CHOOSE i \in 1..Len(UpperCase) : UpperCase[i] = c]
    ELSE c

lower(text) == [i \in 1..Len(text) |-> lower_char(text[i])]

(***************************************************************************)
(* NaturalLanguageProcessor.__init__: the pattern tables, in declaration   *)
(* order (a dict keeps insertion order).                                   *)
(***************************************************************************)
intent_patterns ==
  << [intent |-> "failed_logins", patterns |-> <<
        <<Lit(<<"f", "a", "i", "l", "e", "d">>), AnyRun, Lit(<<"l", "o", "g", "i", "n">>)>>,
        <<Lit(<<"l", "o", "g", "i", "n">>), AnyRun, Lit(<<"f", "a", "i", "l", "e", "d">>)>>,
        <<Lit(<<"a", "u", "t", "h", "e", "n", "t", "i", "c", "a", "t", "i", "o", "n">>), AnyRun, Lit(<<"f", "a", "i", "l">>)>>,
        <<Lit(<<"f", "a", "i", "l", "e", "d">>), AnyRun, Lit(<<"a", "u", "t", "h">>)>>,
        <<Lit(<<"u", "n", "s", "u", "c", "c", "e", "s", "s", "f", "u", "l">>), AnyRun, Lit(<<"l", "o", "g", "i", "n">>)>> >>],
     [intent |-> "successful_logins", patterns |-> <<
        <<Lit(<<"s", "u", "c", "c", "e", "s", "s", "f", "u", "l">>), AnyRun, Lit(<<"l", "o", "g", "i", "n">>)>>,
        <<Lit(<<"l", "o", "g", "i", "n">>), AnyRun, Lit(<<"s", "u", "c", "c", "e", "s", "s">>)>>,
        <<Lit(<<"s", "u", "c", "c", "e", "s", "s">>), AnyRun, Lit(<<"a", "u", "t", "h">>)>> >>],
     [intent |-> "brute_force", patterns |-> <<
        <<Lit(<<"b", "r", "u", "t", "e">>), AnyRun, Lit(<<"f", "o", "r", "c", "e">>)>>,
        <<Lit(<<"m", "u", "l", "t", "i", "p", "l", "e">>), AnyRun, Lit(<<"f", "a", "i", "l", "e", "d">>)>>,
        <<Lit(<<"r", "e", "p", "e", "a", "t", "e", "d">>), AnyRun, Lit(<<"l", "o", "g", "i", "n">>)>> >>],
     [intent |-> "malware_detection", patterns |-> <<
        <<Lit(<<"m", "a", "l", "w", "a", "r", "e">>)>>,
        <<Lit(<<"v", "i", "r", "u", "s">>)>>,
        <<Lit(<<"t", "h", "r", "e", "a", "t">>)>>,
        <<Lit(<<"m", "a", "l", "i", "c", "i", "o", "u", "s">>)>> >>],
     [intent |-> "suspicious_activity", patterns |-> <<
        <<Lit(<<"s", "u", "s", "p", "i", "c", "i", "o", "u", "s">>)>>,
        <<Lit(<<"u", "n", "u", "s", "u", "a", "l">>)>>,
        <<Lit(<<"a", "n", "o", "m", "a", "l", "y">>)>>,
        <<Lit(<<"s", "t", "r", "a", "n", "g", "e">>)>> >>],
     [intent |-> "top_users", patterns |-> <<
        <<Lit(<<"t", "o", "p">>), AnyRun, Lit(<<"u", "s", "e", "r">>)>>,
        <<Lit(<<"m", "o", "s", "t">>), AnyRun, Lit(<<"a", "c", "t", "i", "v", "e">>)>>,
        <<Lit(<<"u", "s", "e", "r">>), AnyRun, Lit(<<"a", "c", "t", "i", "v", "i", "t", "y">>)>> >>],
     [intent |-> "geographic_analysis", patterns |-> <<
        <<Lit(<<"c", "o", "u", "n", "t", "r", "y">>)>>,
        <<Lit(<<"g", "e", "o", "g", "r", "a", "p", "h", "i", "c">>)>>,
        <<Lit(<<"l", "o", "c", "a", "t", "i", "o", "n">>)>>,
        <<Lit(<<"r", "e", "g", "i", "o", "n">>)>>,
        <<Lit(<<"i", "n", "d", "i", "a">>)>>,
        <<Lit(<<"I", "N", "D", "I", "A">>)>> >>],
     [intent |-> "time_analysis", patterns |-> <<
        <<Lit(<<"t", "i", "m", "e", "l", "i", "n", "e">>)>>,
        <<Lit(<<"o", "v", "e", "r", "t", "i", "m", "e">>)>>,
        <<Lit(<<"t", "r", "e", "n", "d">>)>>,
        <<Lit(<<"h", "o", "u", "r", "l", "y">>)>>,
        <<Lit(<<"d", "a", "i", "l", "y">>)>> >>] >>

time_range_patterns ==
  << [pattern |-> <<Lit(<<"l", "a", "s", "t">>), WsRun, NumGroup, WsRun, Lit(<<"h", "o", "u", "r">>), Opt("s")>>,
      tag |-> "hours"],
     [pattern |-> <<Lit(<<"l", "a", "s", "t">>), WsRun, NumGroup, WsRun, Lit(<<"d", "a", "y">>), Opt("s")>>,
      tag |-> "days"],
     [pattern |-> <<Lit(<<"l", "a", "s", "t">>), WsRun, NumGroup, WsRun, Lit(<<"w", "e", "e", "k">>), Opt("s")>>,
      tag |-> "weeks"],
     [pattern |-> <<Lit(<<"t", "o", "d", "a", "y">>)>>,
      tag |-> "today"],
     [pattern |-> <<Lit(<<"y", "e", "s", "t", "e", "r", "d", "a", "y">>)>>,
      tag |-> "yesterday"],
     [pattern |-> <<Lit(<<"p", "a", "s", "t">>), WsRun, Lit(<<"w", "e", "e", "k">>)>>,
      tag |-> "last_week"],
     [pattern |-> <<Lit(<<"p", "a", "s", "t">>), WsRun, Lit(<<"m", "o", "n", "t", "h">>)>>,
      tag |-> "last_month"] >>

severity_patterns ==
  << [pattern |-> <<Lit(<<"c", "r", "i", "t", "i", "c", "a", "l">>)>>,
      tag |-> "critical"],
     [pattern |-> <<Lit(<<"h", "i", "g", "h">>)>>,
      tag |-> "high"],
     [pattern |-> <<Lit(<<"m", "e", "d", "i", "u", "m">>)>>,
      tag |-> "medium"],
     [pattern |-> <<Lit(<<"l", "o", "w">>)>>,
      tag |-> "low"] >>

count_patterns ==
  << [pattern |-> <<Lit(<<"t", "o", "p">>), WsRun, NumGroup>>,
      tag |-> "top_n"],
     [pattern |-> <<Lit(<<"f", "i", "r", "s", "t">>), WsRun, NumGroup>>,
      tag |-> "top_n"] >>

country_patterns ==
  << [pattern |-> <<Lit(<<"i", "n", "d", "i", "a">>)>>,
      tag |-> "IN"],
     [pattern |-> <<Lit(<<"u", "s", "a">>)>>,
      tag |-> "US"],
     [pattern |-> <<Lit(<<"c", "h", "i", "n", "a">>)>>,
      tag |-> "CN"],
     [pattern |-> <<Lit(<<"r", "u", "s", "s", "i", "a">>)>>,
      tag |-> "RU"] >>

Phrases ==
  { <<"f", "a", "i", "l", "e", "d", " ", "l", "o", "g", "i", "n">>,
    <<"m", "u", "l", "t", "i", "p", "l", "e", " ", "f", "a", "i", "l", "e", "d">>,
    <<"m", "a", "l", "w", "a", "r", "e">>,
    <<"F", "r", "o", "m", " ", "I", "N", "D", "I", "A">>,
    <<"f", "a", "i", "l", "e", "d", "\n", "l", "o", "g", "i", "n">>,
    <<"s", "h", "o", "w", " ", "e", "v", "e", "n", "t", "s">>,
    <<"l", "a", "s", "t", " ", "5", " ", "h", "o", "u", "r", "s">>,
    <<"l", "a", "s", "t", " ", "1", "2", " ", "d", "a", "y", "s">>,
    <<"l", "a", "s", "t", " ", "3", " ", "w", "e", "e", "k", "s">>,
    <<"l", "a", "s", "t", " ", "1", " ", "h", "o", "u", "r">>,
    <<"l", "a", "s", "t", " ", " ", "0", "0", "7", "\t", "d", "a", "y", "s">>,
    <<"t", "o", "d", "a", "y">>,
    <<"y", "e", "s", "t", "e", "r", "d", "a", "y">>,
    <<"p", "a", "s", "t", " ", "m", "o", "n", "t", "h">>,
    <<"h", "i", "g", "h">>,
    <<"t", "o", "p", " ", "2", "0", " ", "u", "s", "e", "r", "s">>,
    <<"f", "i", "r", "s", "t", " ", "3">>,
    <<"u", "s", "a">> }
(***************************************************************************)
(* NaturalLanguageProcessor                                                *)
(***************************************************************************)
\* for pattern in patterns: if re.search(pattern, query)
RECURSIVE AnyPatternMatches(_, _, _)
AnyPatternMatches(patterns, j, text) ==
    IF j > Len(patterns) THEN FALSE
    ELSE IF re_search(patterns[j], text).ok THEN TRUE
    ELSE AnyPatternMatches(patterns, j + 1, text)

\* for intent, patterns in self.intent_patterns.items(): ... return intent
RECURSIVE DetectFrom(_, _, _)
DetectFrom(table, i, text) ==
    IF i > Len(table) THEN "general_search"
    ELSE IF AnyPatternMatches(table[i].patterns, 1, text) THEN table[i].intent
    ELSE DetectFrom(table, i + 1, text)

\* (mutant) the loop goes on after a match: the last matching intent wins
RECURSIVE DetectLast(_, _, _)
DetectLast(table, i, text) ==
    IF i < 1 THEN "general_search"
    ELSE IF AnyPatternMatches(table[i].patterns, 1, text) THEN table[i].intent
    ELSE DetectLast(table, i - 1, text)

detect_intent_last_wins(text) == DetectLast(intent_patterns, Len(intent_patterns), text)

detect_intent(text) == DetectFrom(intent_patterns, 1, text)

\* index of the first entry of an entity table whose pattern matches, 0 if none
RECURSIVE FirstMatch(_, _, _)
FirstMatch(table, i, text) ==
    IF i > Len(table) THEN 0
    ELSE IF re_search(table[i].pattern, text).ok THEN i
    ELSE FirstMatch(table, i + 1, text)

\* (mutant) the default window is one hour
DefaultTimeRange_one_hour == [unit |-> "hours", value |-> 1]

DefaultTimeRange == [unit |-> "hours", value |-> 24]

\* (mutant) no break after a match: the last matching time pattern wins
RECURSIVE LastMatch(_, _, _)
LastMatch(table, i, text) ==
    IF i < 1 THEN 0
    ELSE IF re_search(table[i].pattern, text).ok THEN i
    ELSE LastMatch(table, i - 1, text)

extract_time_range_no_break(text) ==
    LET i == LastMatch(time_range_patterns, Len(time_range_patterns), text) IN
    IF i = 0 THEN [unit |-> "hours", value |-> 24]
    ELSE LET unit == time_range_patterns[i].tag
             m == re_search(time_range_patterns[i].pattern, text) IN
         IF unit \in {"hours", "days", "weeks"}
         THEN [unit |-> unit, value |-> IF m.cap # << >> THEN int(m.cap) ELSE 1]
         ELSE [unit |-> unit, value |-> 1]

\* "Extract time range"
extract_time_range(text) ==
    LET i == FirstMatch(time_range_patterns, 1, text) IN
    IF i = 0 THEN DefaultTimeRange
    ELSE LET unit == time_range_patterns[i].tag
             m == re_search(time_range_patterns[i].pattern, text) IN
         IF unit \in {"hours", "days", "weeks"}
         THEN [unit |-> unit, value |-> IF m.cap # << >> THEN int(m.cap) ELSE 1]
         ELSE [unit |-> unit, value |-> 1]

\* "Extract severity" and "Extract country"
extract_tag(table, text) ==
    LET i == FirstMatch(table, 1, text) IN
    IF i = 0 THEN None ELSE table[i].tag

\* (mutant) the group is (\d) and takes one digit
extract_top_n_one_digit(text) ==
    LET i == FirstMatch(count_patterns, 1, text) IN
    IF i = 0 THEN 10
    ELSE int(SubSeq(re_search(count_patterns[i].pattern, text).cap, 1, 1))

\* "Extract top N"
extract_top_n(text) ==
    LET i == FirstMatch(count_patterns, 1, text) IN
    IF i = 0 THEN 10 ELSE int(re_search(count_patterns[i].pattern, text).cap)

\* (mutant) the intent failed_logins sets an event_type filter
extract_entities_with_event_type(text) ==
    IF detect_intent(text) = "failed_logins"
    THEN [time_range |-> extract_time_range(text),
          severity |-> extract_tag(severity_patterns, text),
          top_n |-> extract_top_n(text),
          country |-> extract_tag(country_patterns, text),
          event_type |-> "failed_login"]
    ELSE [time_range |-> extract_time_range(text),
          severity |-> extract_tag(severity_patterns, text),
          top_n |-> extract_top_n(text),
          country |-> extract_tag(country_patterns, text)]

extract_entities(text) ==
    [time_range |-> extract_time_range(text),
     severity |-> extract_tag(severity_patterns, text),
     top_n |-> extract_top_n(text),
     country |-> extract_tag(country_patterns, text)]

chart_mapping(intent) ==
    CASE intent = "failed_logins" -> << "timeline", "top_users", "geo_distribution" >>
      [] intent = "successful_logins" -> << "timeline", "top_users", "geo_distribution" >>
      [] intent = "brute_force" -> << "timeline", "top_ips", "severity_distribution" >>
      [] intent = "malware_detection" -> << "event_types", "severity_distribution", "timeline" >>
      [] intent = "suspicious_activity" -> << "timeline", "event_types", "risk_distribution" >>
      [] intent = "top_users" -> << "user_activity", "bar_chart" >>
      [] intent = "geographic_analysis" -> << "geo_distribution", "world_map" >>
      [] intent = "time_analysis" -> << "timeline", "heatmap" >>
      [] intent = "general_search" -> << "timeline", "event_types", "top_ips" >>
      [] OTHER -> << "timeline", "event_types" >>

suggest_chart_types(intent, entities) == chart_mapping(intent)

parse_query(text) ==
    LET query_lower == lower(text)
        intent == detect_intent(query_lower)
        entities == extract_entities(query_lower) IN
    [intent |-> intent,
     entities |-> entities,
     chart_types |-> suggest_chart_types(intent, entities),
     original_query |-> text]
(***************************************************************************)
(* The query texts of the model: up to MaxPhrases phrases separated by one *)
(* blank.                                                                  *)
(***************************************************************************)
MaxPhrases == 2

RECURSIVE Join(_)
Join(ps) ==
    IF Len(ps) = 1 THEN ps[1]
    ELSE ps[1] \o << " " >> \o Join(Tail(ps))

Texts == UNION { { Join(ps) : ps \in [1..n -> Phrases] } : n \in 1..MaxPhrases }

NoParse == [intent |-> None,
            entities |-> [time_range |-> DefaultTimeRange, severity |-> None,
                          top_n |-> 0, country |-> None],
            chart_types |-> << >>,
            original_query |-> << >>]

(***************************************************************************)
(* The parser alone: a query text is drawn, parse_query is applied.        *)
(***************************************************************************)
InitNLP ==
    /\ pc = "start"
    /\ query \in Texts
    /\ parsed_query = NoParse
    /\ sample_data = << >>
    /\ now = 0
    /\ query_context = << >>
    /\ time_filtered = << >>
    /\ filtered_events = << >>
    /\ refiltered = << >>
    /\ sort_kind = "stable"
    /\ analysis = << >>
    /\ result = << >>
    /\ chart_data = << >>
    /\ requests = << >>
    /\ generated = << >>
    /\ security_events = << >>
    /\ outcome = ""
    /\ other_context = << >>
    /\ other_filtered = << >>

ParseQuery ==
    /\ pc = "start"
    /\ parsed_query' = parse_query(query)
    /\ pc' = "parsed"
    /\ UNCHANGED << source_vars, compare_vars,
                    query, filter_vars, agg_vars, engine_vars >>

NextNLP == ParseQuery

SpecNLP == InitNLP /\ [][NextNLP]_vars

(***************************************************************************)
(* What a text contains, stated position by position and without the       *)
(* backtracking matcher.                                                   *)
(***************************************************************************)
W_last == <<"l", "a", "s", "t">>
W_hour == <<"h", "o", "u", "r">>
W_day == <<"d", "a", "y">>
W_week == <<"w", "e", "e", "k">>
W_today == <<"t", "o", "d", "a", "y">>
W_yesterday == <<"y", "e", "s", "t", "e", "r", "d", "a", "y">>
W_past == <<"p", "a", "s", "t">>
W_month == <<"m", "o", "n", "t", "h">>
W_top == <<"t", "o", "p">>
W_first == <<"f", "i", "r", "s", "t">>
W_india == <<"i", "n", "d", "i", "a">>
W_usa == <<"u", "s", "a">>
W_china == <<"c", "h", "i", "n", "a">>
W_russia == <<"r", "u", "s", "s", "i", "a">>
W_critical == <<"c", "r", "i", "t", "i", "c", "a", "l">>
W_high == <<"h", "i", "g", "h">>
W_medium == <<"m", "e", "d", "i", "u", "m">>
W_low == <<"l", "o", "w">>
W_failed_login == <<"f", "a", "i", "l", "e", "d", " ", "l", "o", "g", "i", "n">>
W_last_5_hours == <<"l", "a", "s", "t", " ", "5", " ", "h", "o", "u", "r", "s">>
W_top_20_users_from_india ==
    <<"t", "o", "p", " ", "2", "0", " ", "u", "s", "e", "r", "s", " ",
      "f", "r", "o", "m", " ", "i", "n", "d", "i", "a">>

\* word w stands in text at position p
Occurs(w, text, p) ==
    /\ p >= 1
    /\ p + Len(w) - 1 <= Len(text)
    /\ \A i \in 1..Len(w) : text[p + i - 1] = w[i]

Contains(text, w) == \E p \in 1..Len(text) : Occurs(w, text, p)

\* a, then b later on the same line (a.*b); b may be empty
ContainsThen(text, a, b) ==
    \E p \in 1..Len(text) :
      /\ Occurs(a, text, p)
      /\ \E q \in (p + Len(a))..(Len(text) + 1) :
           /\ Occurs(b, text, q)
           /\ \A i \in (p + Len(a))..(q - 1) : text[i] # "\n"

\* the decimal value of a numeral, digit by digit
RECURSIVE Pow10(_)
Pow10(n) == IF n = 0 THEN 1 ELSE 10 * Pow10(n - 1)

DecimalValue(s) ==
    LET RECURSIVE Sum(_)
        Sum(i) == IF i > Len(s) THEN 0
                  ELSE DigitValue(s[i]) * Pow10(Len(s) - i) + Sum(i + 1)
    IN Sum(1)

\* the blanks and digits that follow word w at p: w, blanks, a numeral
BlanksAfter(w, text, p) == RunLen(text, p + Len(w), "ws")
NumeralStart(w, text, p) == p + Len(w) + BlanksAfter(w, text, p)
NumeralLen(w, text, p) == RunLen(text, NumeralStart(w, text, p), "num")
NumeralAt(w, text, p) ==
    SubSeq(text, NumeralStart(w, text, p),
           NumeralStart(w, text, p) + NumeralLen(w, text, p) - 1)

\* "w N" stands at p: w, at least one blank, at least one digit
WordNumberAt(w, text, p) ==
    /\ Occurs(w, text, p)
    /\ BlanksAfter(w, text, p) >= 1
    /\ NumeralLen(w, text, p) >= 1

\* "last N unit" stands at p: "last", blanks, N, blanks, the unit word
LastNUnitAt(unit, text, p) ==
    /\ WordNumberAt(W_last, text, p)
    /\ LET e == NumeralStart(W_last, text, p) + NumeralLen(W_last, text, p)
           b == RunLen(text, e, "ws") IN
       b >= 1 /\ Occurs(unit, text, e + b)

HasLastN(unit, text) == \E p \in 1..Len(text) : LastNUnitAt(unit, text, p)

\* N of the first "last N unit" of the text
FirstLastN(unit, text) ==
    LET p == CHOOSE p \in 1..Len(text) :
               /\ LastNUnitAt(unit, text, p)
               /\ \A q \in 1..(p - 1) : ~LastNUnitAt(unit, text, q) IN
    DecimalValue(NumeralAt(W_last, text, p))

HasWordNumber(w, text) == \E p \in 1..Len(text) : WordNumberAt(w, text, p)

FirstWordNumber(w, text) ==
    LET p == CHOOSE p \in 1..Len(text) :
               /\ WordNumberAt(w, text, p)
               /\ \A q \in 1..(p - 1) : ~WordNumberAt(w, text, q) IN
    DecimalValue(NumeralAt(w, text, p))

HasPast(w, text) ==
    \E p \in 1..Len(text) :
      /\ Occurs(W_past, text, p)
      /\ RunLen(text, p + 4, "ws") >= 1
      /\ Occurs(w, text, p + 4 + RunLen(text, p + 4, "ws"))

\* the intents in the order the claim gives
IntentOrder ==
    << "failed_logins", "successful_logins", "brute_force", "malware_detection",
       "suspicious_activity", "top_users", "geographic_analysis", "time_analysis" >>

\* some pattern of the k-th intent of the table is in the text
\* (every intent pattern is a word, or a word .* a word)
IntentIn(k, text) ==
    \E j \in 1..Len(intent_patterns[k].patterns) :
      LET pat == intent_patterns[k].patterns[j] IN
      IF Len(pat) = 1 THEN Contains(text, pat[1].s)
      ELSE ContainsThen(text, pat[1].s, pat[3].s)

(***************************************************************************)
(* The parser's claims, checked under SpecNLP.                             *)
(***************************************************************************)
Parsed == pc = "parsed"
Text == lower(query)
Entities == parsed_query.entities

\* C1: the intent is the first intent, in the declaration order failed_logins,
\* successful_logins, brute_force, malware_detection, suspicious_activity,
\* top_users, geographic_analysis, time_analysis, one of whose patterns is in
\* the lower-cased text, whatever later intents match too; it is general_search
\* exactly when no pattern of any intent is in the text.
C1_FirstMatchPrecedence ==
    Parsed =>
      /\ \A k \in 1..Len(IntentOrder) :
           /\ intent_patterns[k].intent = IntentOrder[k]
           /\ (parsed_query.intent = IntentOrder[k])
                <=> (IntentIn(k, Text) /\ \A h \in 1..(k - 1) : ~IntentIn(h, Text))
      /\ (parsed_query.intent = "general_search")
           <=> (\A k \in 1..Len(IntentOrder) : ~IntentIn(k, Text))

\* C1 witness: a parsed text with a failed_logins pattern and a brute_force
\* pattern, classified failed_logins.
C1_Witness ==
    /\ Parsed
    /\ IntentIn(1, Text)
    /\ IntentIn(3, Text)
    /\ parsed_query.intent = "failed_logins"

\* C2 as stated: whenever "last N hours" (days, weeks) stands anywhere in the
\* text, the time range is {hours (days, weeks), N} for that N, hours before
\* days before weeks.
C2_AsStated ==
    Parsed =>
      LET tr == Entities.time_range
          h == HasLastN(W_hour, Text)
          d == HasLastN(W_day, Text) IN
      \A p \in 1..Len(Text) :
        /\ LastNUnitAt(W_hour, Text, p)
             => tr = [unit |-> "hours",
                      value |-> DecimalValue(NumeralAt(W_last, Text, p))]
        /\ (~h /\ LastNUnitAt(W_day, Text, p))
             => tr = [unit |-> "days",
                      value |-> DecimalValue(NumeralAt(W_last, Text, p))]
        /\ (~h /\ ~d /\ LastNUnitAt(W_week, Text, p))
             => tr = [unit |-> "weeks",
                      value |-> DecimalValue(NumeralAt(W_last, Text, p))]

\* C2 (amended): the time range follows the order of the time patterns: a text
\* with "last N hours" gets {hours, N}, else one with "last N days" gets
\* {days, N}, else one with "last N weeks" gets {weeks, N}, where N is the
\* numeral of the FIRST such phrase of the text, as an integer, also when
\* "today" or "yesterday" stands earlier in the text; without such a phrase,
\* "today" gives {today, 1}, else "yesterday" gives {yesterday, 1}; a text with
\* "failed login" whose first "last N hours" is "last 5 hours" is failed_logins
\* with {hours, 5}.
C2_TimePatternOrder ==
    Parsed =>
      LET h == HasLastN(W_hour, Text)
          d == HasLastN(W_day, Text)
          w == HasLastN(W_week, Text)
          tr == Entities.time_range IN
      /\ h => tr = [unit |-> "hours", value |-> FirstLastN(W_hour, Text)]
      /\ (~h /\ d) => tr = [unit |-> "days", value |-> FirstLastN(W_day, Text)]
      /\ (~h /\ ~d /\ w) => tr = [unit |-> "weeks", value |-> FirstLastN(W_week, Text)]
      /\ (~h /\ ~d /\ ~w /\ Contains(Text, W_today))
           => tr = [unit |-> "today", value |-> 1]
      /\ (~h /\ ~d /\ ~w /\ ~Contains(Text, W_today) /\ Contains(Text, W_yesterday))
           => tr = [unit |-> "yesterday", value |-> 1]
      /\ (Contains(Text, W_failed_login) /\ h /\ FirstLastN(W_hour, Text) = 5)
           => /\ parsed_query.intent = "failed_logins"
              /\ tr = [unit |-> "hours", value |-> 5]

\* C2 witness: "yesterday" stands before "last 5 hours" and the range is 5 hours.
C2_Witness ==
    /\ Parsed
    /\ \E p \in 1..Len(Text) :
         /\ Occurs(W_yesterday, Text, p)
         /\ \E q \in (p + 1)..Len(Text) : Occurs(W_last_5_hours, Text, q)
    /\ Entities.time_range = [unit |-> "hours", value |-> 5]

C4_AsStated ==
    Parsed =>
      /\ \A p \in 1..Len(Text) :
           /\ WordNumberAt(W_top, Text, p)
                => Entities.top_n = DecimalValue(NumeralAt(W_top, Text, p))
           /\ WordNumberAt(W_first, Text, p)
                => Entities.top_n = DecimalValue(NumeralAt(W_first, Text, p))
      /\ Contains(Text, W_india) => Entities.country = "IN"

\* C4 (amended): top_n and country are extracted independently: a text with
\* "top K" gets top_n = K for the FIRST "top K" of the text, and only a text
\* without "top K" gets the K of its first "first K"; a text with a country name
\* gets the code of the first of india, usa, china, russia it contains (IN, US,
\* CN, RU); each whatever the other, and whatever the intent; "top 20 users
\* from india" gives top_n 20, country IN, severity None and the default time
\* range.
C4_TopNAndCountry ==
    Parsed =>
      /\ HasWordNumber(W_top, Text) => Entities.top_n = FirstWordNumber(W_top, Text)
      /\ (~HasWordNumber(W_top, Text) /\ HasWordNumber(W_first, Text))
           => Entities.top_n = FirstWordNumber(W_first, Text)
      /\ Contains(Text, W_india) => Entities.country = "IN"
      /\ (~Contains(Text, W_india) /\ Contains(Text, W_usa)) => Entities.country = "US"
      /\ (~Contains(Text, W_india) /\ ~Contains(Text, W_usa) /\ Contains(Text, W_china))
           => Entities.country = "CN"
      /\ (/\ ~Contains(Text, W_india) /\ ~Contains(Text, W_usa)
          /\ ~Contains(Text, W_china) /\ Contains(Text, W_russia))
           => Entities.country = "RU"
      /\ Text = W_top_20_users_from_india
           => Entities = [time_range |-> [unit |-> "hours", value |-> 24],
                          severity |-> None, top_n |-> 20, country |-> "IN"]

\* C4 witness: "top 20 users from india" has been parsed.
C4_Witness ==
    /\ Parsed
    /\ Text = W_top_20_users_from_india
    /\ Entities.top_n = 20
    /\ Entities.country = "IN"

(***************************************************************************)
(* Time.  A datetime is a number of ticks since the midnight (UTC) that    *)
(* began the day of the store's base_time; a second has TicksPerSecond     *)
(* ticks, so that instants inside a second exist.                          *)
(***************************************************************************)
TicksPerSecond == 2

Second == TicksPerSecond
Minute == 60 * Second
Hour == 60 * Minute
Day == 24 * Hour
Week == 7 * Day

\* timedelta(days=d, hours=h, minutes=m)
timedelta(d, h, m) == d * Day + h * Hour + m * Minute

\* dt.replace(hour=0, minute=0, second=0, microsecond=0)
midnight(t) == t - (t % Day)

\* datetime.isoformat() + 'Z': the fields of the text (the date as a day
\* number), the fraction of the second left out when it is zero
isoformat_Z(t) ==
    [day |-> t \div Day,
     hour |-> (t % Day) \div Hour,
     minute |-> (t % Hour) \div Minute,
     second |-> (t % Minute) \div Second,
     fraction |-> IF t % Second = 0 THEN << >> ELSE << t % Second >>,
     suffix |-> "Z"]

\* s.replace('Z', '')
replace_Z(s) == [s EXCEPT !.suffix = ""]

\* datetime.fromisoformat(s) of a text without offset: a naive datetime
fromisoformat(s) ==
    s.day * Day + s.hour * Hour + s.minute * Minute + s.second * Second
      + (IF s.fraction = << >> THEN 0 ELSE s.fraction[1])

(***************************************************************************)
(* SecurityDataGenerator                                                   *)
(***************************************************************************)
event_types ==
    << "failed_login", "successful_login", "malware_detected", "firewall_block",
       "privilege_escalation", "data_exfiltration", "port_scan",
       "brute_force_attempt", "suspicious_connection" >>

countries ==
    << "IN", "US", "UK", "DE", "FR", "JP", "CN", "BR", "AU", "CA", "RU", "KR",
       "SG", "AE", "PK", "BD", "LK", "NP" >>

assign_severity(event_type) ==
    CASE event_type = "failed_login" -> "medium"
      [] event_type = "successful_login" -> "low"
      [] event_type = "malware_detected" -> "critical"
      [] event_type = "firewall_block" -> "high"
      [] event_type = "privilege_escalation" -> "high"
      [] event_type = "data_exfiltration" -> "critical"
      [] event_type = "port_scan" -> "medium"
      [] event_type = "brute_force_attempt" -> "high"
      [] event_type = "suspicious_connection" -> "medium"
      [] OTHER -> "low"

\* the range random.randint draws the risk score of an event type from
risk_range(event_type) ==
    CASE event_type = "failed_login" -> 40..70
      [] event_type = "successful_login" -> 1..30
      [] event_type = "malware_detected" -> 85..100
      [] event_type = "firewall_block" -> 60..85
      [] event_type = "privilege_escalation" -> 75..95
      [] event_type = "data_exfiltration" -> 90..100
      [] event_type = "port_scan" -> 50..75
      [] event_type = "brute_force_attempt" -> 70..90
      [] event_type = "suspicious_connection" -> 55..80
      [] OTHER -> 1..100

\* One event of _generate_sample_data: i is the loop index, base_time the
\* construction time minus 30 days, r the values the random module drew.
\* (destination_ip, message, bytes_sent and bytes_received are carried along
\* by the pipeline and never read; they are left out.)
make_event(i, base_time, r) ==
    [id |-> i,
     timestamp |-> isoformat_Z(base_time + timedelta(r.days_ago, r.hours_ago, r.minutes_ago)),
     event_type |-> r.event_type,
     source_ip |-> r.source_ip,
     user |-> r.user,
     severity |-> assign_severity(r.event_type),
     country |-> r.country,
     risk_score |-> r.risk_score]

\* dict.get(key): None for a key the dict does not have
get(d, key) == IF key \in DOMAIN d THEN d[key] ELSE None

\* "if x:" for the values a query context holds
truthy(v) == v # None /\ v # ""

\* (mutant) yesterday's window ends at the next midnight: the "- 1 second" is lost
time_window_whole_day(time_range, clock) ==
    CASE time_range.unit = "hours" ->
           [cutoff |-> clock - time_range.value * Hour, now |-> clock]
      [] time_range.unit = "days" ->
           [cutoff |-> clock - time_range.value * Day, now |-> clock]
      [] time_range.unit = "weeks" ->
           [cutoff |-> clock - time_range.value * Week, now |-> clock]
      [] time_range.unit = "today" ->
           [cutoff |-> midnight(clock), now |-> clock]
      [] time_range.unit = "yesterday" ->
           [cutoff |-> midnight(clock - Day), now |-> midnight(clock - Day) + Day]
      [] OTHER ->
           [cutoff |-> clock - 24 * Hour, now |-> clock]

\* the window [cutoff, now] of _filter_by_time
time_window(time_range, clock) ==
    CASE time_range.unit = "hours" ->
           [cutoff |-> clock - time_range.value * Hour, now |-> clock]
      [] time_range.unit = "days" ->
           [cutoff |-> clock - time_range.value * Day, now |-> clock]
      [] time_range.unit = "weeks" ->
           [cutoff |-> clock - time_range.value * Week, now |-> clock]
      [] time_range.unit = "today" ->
           [cutoff |-> midnight(clock), now |-> clock]
      [] time_range.unit = "yesterday" ->
           [cutoff |-> midnight(clock - Day),
            now |-> midnight(clock - Day) + Day - Second]
      [] OTHER ->
           [cutoff |-> clock - 24 * Hour, now |-> clock]

\* (mutant) the window has no upper end
filter_loop_no_upper_end(events, i, w) ==
    LET in_window(e) ==
          LET event_time == fromisoformat(replace_Z(e.timestamp)) IN
          w.cutoff <= event_time IN
    SelectSeq(SubSeq(events, i, Len(events)), in_window)

\* the loop of _filter_by_time: append e when cutoff <= event_time <= now
filter_loop(events, i, w) ==
    LET in_window(e) ==
          LET event_time == fromisoformat(replace_Z(e.timestamp)) IN
          w.cutoff <= event_time /\ event_time <= w.now IN
    SelectSeq(SubSeq(events, i, Len(events)), in_window)

\* (mutant) the loop starts at the second event
filter_by_time_skip_first(events, time_range, clock) ==
    filter_loop(events, 2, time_window(time_range, clock))

filter_by_time(events, time_range, clock) ==
    filter_loop(events, 1, time_window(time_range, clock))

\* [e for e in filtered_data if e[field] == value]
keep_equal(events, field, value) ==
    LET equal(e) == e[field] = value IN
    SelectSeq(events, equal)

\* (mutant) "if query_context.get(field) is not None"
filter_field_not_none(events, query_ctx, field) ==
    IF get(query_ctx, field) # None
    THEN keep_equal(events, field, query_ctx[field])
    ELSE events

\* "if query_context.get(field): filtered_data = [...]"
filter_field(events, query_ctx, field) ==
    IF truthy(get(query_ctx, field))
    THEN keep_equal(events, field, query_ctx[field])
    ELSE events

\* the time range get_filtered_data hands to _filter_by_time
context_time_range(query_ctx) ==
    IF "time_range" \in DOMAIN query_ctx THEN query_ctx.time_range
    ELSE [unit |-> "hours", value |-> 24]

\* (mutant) at most top_n events are returned
filter_events_top_n(store, query_ctx, clock) ==
    LET by_time == filter_by_time(store, context_time_range(query_ctx), clock)
        by_severity == filter_field(by_time, query_ctx, "severity")
        by_country == filter_field(by_severity, query_ctx, "country")
        by_type == filter_field(by_country, query_ctx, "event_type") IN
    IF "top_n" \in DOMAIN query_ctx /\ query_ctx.top_n < Len(by_type)
    THEN SubSeq(by_type, 1, query_ctx.top_n) ELSE by_type

\* get_filtered_data over the event list store, the clock reading clock
filter_events(store, query_ctx, clock) ==
    LET by_time == filter_by_time(store, context_time_range(query_ctx), clock)
        by_severity == filter_field(by_time, query_ctx, "severity")
        by_country == filter_field(by_severity, query_ctx, "country") IN
    filter_field(by_country, query_ctx, "event_type")

(***************************************************************************)
(* The event filter alone.  The store is generated at construction time    *)
(* (base_time = utcnow() - 30 days); a query context is drawn and          *)
(* get_filtered_data is applied at a later clock reading; the filter is    *)
(* then applied to its own output.                                         *)
(***************************************************************************)
MaxEvents == 3

\* the times of day (UTC) at which the store is constructed: noon, one second
\* before noon, one tick before noon
StartTimes == { 12 * Hour, 12 * Hour - Second, 12 * Hour - 1 }

\* get_filtered_data runs one minute after the construction
QueryDelay == Minute

\* what the random module draws for an event: the days/hours/minutes offsets
\* lie around the borders of the windows, for a failed_login from India...
TimeDraws ==
    { [event_type |-> "failed_login", country |-> "IN", days_ago |-> o[1],
       hours_ago |-> o[2], minutes_ago |-> o[3], source_ip |-> "103.100.1.1",
       user |-> "user1", risk_score |-> 40] :
      o \in { << 23, 0, 1 >>, << 28, 12, 0 >>, << 29, 12, 0 >>, << 29, 23, 0 >>,
              << 29, 23, 1 >>, << 30, 0, 1 >>, << 30, 0, 2 >> } }

\* ... and inside every window for other types and countries
FieldDraws ==
    { [event_type |-> tc[1], country |-> tc[2], days_ago |-> 30, hours_ago |-> 0,
       minutes_ago |-> 0, source_ip |-> "1.0.0.1", user |-> "user2",
       risk_score |-> tc[3]] :
      tc \in { << "failed_login", "US", 41 >>, << "port_scan", "IN", 50 >>,
               << "malware_detected", "IN", 85 >> } }

Draws == TimeDraws \cup FieldDraws

\* _generate_sample_data(count) for count <= MaxEvents
Stores(base_time) ==
    UNION { { [i \in 1..n |-> make_event(i - 1, base_time, rs[i])] :
              rs \in [1..n -> Draws] } : n \in 1..MaxEvents }

\* the time ranges of the query contexts
TimeRanges ==
    { [unit |-> "hours", value |-> 0], [unit |-> "hours", value |-> 1],
      [unit |-> "days", value |-> 1], [unit |-> "weeks", value |-> 1],
      [unit |-> "today", value |-> 1], [unit |-> "yesterday", value |-> 1],
      [unit |-> "last_week", value |-> 1], [unit |-> "last_month", value |-> 1] }

\* the entities of a parsed query (no event_type key), the filters of
\* /api/search (any keys, any values)
Contexts ==
    { [time_range |-> tr, severity |-> None, top_n |-> 10, country |-> None] :
      tr \in TimeRanges }
    \cup { [severity |-> "medium"] }
    \cup { [time_range |-> [unit |-> "weeks", value |-> 1], severity |-> sv,
            country |-> co] :
           sv \in {None, "", "medium", "critical"}, co \in {None, "", "IN"} }
    \cup { [time_range |-> [unit |-> "weeks", value |-> 1], severity |-> sv,
            country |-> co, event_type |-> "failed_login"] :
           sv \in {None, "medium"}, co \in {None, "IN"} }
    \cup { [time_range |-> [unit |-> "weeks", value |-> 1], event_type |-> ""] }

InitFilter ==
    /\ pc = "start"
    /\ query = << >>
    /\ parsed_query = NoParse
    /\ \E t0 \in StartTimes :
         /\ sample_data \in Stores(t0)
         /\ now = t0 + 30 * Day + QueryDelay
    /\ query_context = << >>
    /\ time_filtered = << >>
    /\ filtered_events = << >>
    /\ refiltered = << >>
    /\ sort_kind = "stable"
    /\ analysis = << >>
    /\ result = << >>
    /\ chart_data = << >>
    /\ requests = << >>
    /\ generated = << >>
    /\ security_events = << >>
    /\ outcome = ""
    /\ other_context = << >>
    /\ other_filtered = << >>

\* SecurityDataGenerator.get_filtered_data(query_context)
GetFilteredData(query_ctx) ==
    /\ pc = "start"
    /\ query_context' = query_ctx
    /\ time_filtered' = filter_by_time(sample_data, context_time_range(query_ctx), now)
    /\ filtered_events' = filter_events(sample_data, query_ctx, now)
    /\ pc' = "filtered"
    /\ UNCHANGED << source_vars, compare_vars,
                    nlp_vars, sample_data, now, refiltered, agg_vars, engine_vars >>

\* the filter applied to its own output, same context, same clock reading
Refilter ==
    /\ pc = "filtered"
    /\ refiltered' = filter_events(filtered_events, query_context, now)
    /\ pc' = "refiltered"
    /\ UNCHANGED << source_vars, compare_vars,
                    nlp_vars, sample_data, now, query_context, time_filtered,
                    filtered_events, agg_vars, engine_vars >>

NextFilter ==
    \/ \E query_ctx \in Contexts : GetFilteredData(query_ctx)
    \/ Refilter

SpecFilter == InitFilter /\ [][NextFilter]_vars

(***************************************************************************)
(* The filter's claims, checked under SpecFilter.                          *)
(***************************************************************************)
Filtered == pc \in {"filtered", "refiltered"}

\* the instant an event's timestamp text denotes
EventTime(e) ==
    LET ts == e.timestamp IN
    ((ts.day * 24 + ts.hour) * 60 + ts.minute) * 60 * TicksPerSecond
      + ts.second * TicksPerSecond
      + (IF ts.fraction = << >> THEN 0 ELSE ts.fraction[1])

\* the time range the filter works with: the context's, or 24 hours
UsedTimeRange ==
    IF "time_range" \in DOMAIN query_context THEN query_context.time_range
    ELSE [unit |-> "hours", value |-> 24]

\* start and end of the window as the claim gives them
PreviousMidnight == (now - Day) - ((now - Day) % Day)

WindowStart ==
    LET tr == UsedTimeRange IN
    CASE tr.unit = "hours" -> now - tr.value * 3600 * TicksPerSecond
      [] tr.unit = "days" -> now - tr.value * 86400 * TicksPerSecond
      [] tr.unit = "weeks" -> now - tr.value * 604800 * TicksPerSecond
      [] tr.unit = "today" -> now - (now % Day)
      [] tr.unit = "yesterday" -> PreviousMidnight
      [] OTHER -> now - 86400 * TicksPerSecond

WindowEnd ==
    IF UsedTimeRange.unit = "yesterday"
    THEN PreviousMidnight + 86400 * TicksPerSecond - TicksPerSecond
    ELSE now

InWindow(e) == WindowStart <= EventTime(e) /\ EventTime(e) <= WindowEnd

\* C5: _filter_by_time returns exactly the events of the store with
\* start <= t <= end, both ends included, in store order, where start and end
\* are: now - value*unit and now for hours, days and weeks; the midnight of the
\* current day and now for today; the midnight of the previous day and that
\* midnight + 1 day - 1 second for yesterday; now - 24 hours and now for any
\* other unit (last_week and last_month among them). No returned event has a
\* timestamp after now.
C5_TimeWindow ==
    Filtered =>
      /\ time_filtered = SelectSeq(sample_data, InWindow)
      /\ \A i \in 1..Len(time_filtered) : EventTime(time_filtered[i]) <= now

\* C5 witness: the yesterday window was applied to a store that holds an event
\* of the last second of yesterday, which is returned.
C5_Witness ==
    /\ Filtered
    /\ UsedTimeRange.unit = "yesterday"
    /\ \E i \in 1..Len(time_filtered) :
         EventTime(time_filtered[i]) = now - (now % Day) - Second

\* a filter of the context that is supplied, as the claim has it: not None
Supplied(field) == field \in DOMAIN query_context /\ query_context[field] # None

\* a filter the code applies: supplied with a value that is neither None nor empty
Applied(field) == Supplied(field) /\ query_context[field] # ""

EqualityFields == {"severity", "country", "event_type"}

MatchesSupplied(e) ==
    InWindow(e) /\ \A f \in EqualityFields : Supplied(f) => e[f] = query_context[f]

MatchesApplied(e) ==
    InWindow(e) /\ \A f \in EqualityFields : Applied(f) => e[f] = query_context[f]

\* C6 as stated: get_filtered_data returns exactly the events of the store in
\* the time window that equal every supplied (non-null) one of severity,
\* country, event_type, in store order.
C6_AsStated ==
    Filtered => filtered_events = SelectSeq(sample_data, MatchesSupplied)

\* C6 (amended): get_filtered_data returns exactly the events of the store that
\* lie in the time window and, for each of severity, country and event_type
\* that is supplied with a value that is neither null nor empty, have that
\* field equal to the supplied value (a filter supplied as the empty string is
\* ignored); the events come out in store order; an empty result is the empty
\* list.
C6_EqualityFilters ==
    Filtered => filtered_events = SelectSeq(sample_data, MatchesApplied)

\* C6 witness: severity and country are both supplied, one event of the window
\* passes both and another event of the window does not.
C6_Witness ==
    /\ Filtered
    /\ Applied("severity")
    /\ Applied("country")
    /\ Len(filtered_events) >= 1
    /\ Len(filtered_events) < Len(time_filtered)

\* C7: for a fixed clock reading, the filter applied to its own output with
\* the same context returns that output unchanged.
C7_Idempotent ==
    pc = "refiltered" => refiltered = filtered_events

\* C7 witness: the second pass ran on an output that kept some events of the
\* store and dropped others.
C7_Witness ==
    /\ pc = "refiltered"
    /\ Len(filtered_events) >= 1
    /\ Len(filtered_events) < Len(sample_data)
    /\ refiltered = filtered_events

(***************************************************************************)
(* AnalyticsEngine._analyze_events                                         *)
(*                                                                         *)
(* Series.value_counts() counts the values in one pass, in the order in    *)
(* which they are first met, and then sorts the counts in descending order *)
(* with Series.sort_values' default kind, numpy's quicksort, which is not  *)
(* a stable sort: where two counts are equal the order is the one the      *)
(* installed sort leaves.  sort_kind stands for the installed sort: one    *)
(* that leaves equal counts in first-met order ("stable"), one that        *)
(* leaves them in the opposite order ("unstable").                         *)
(***************************************************************************)
SortKinds == {"stable", "unstable"}

\* the distinct values of a field, in the order in which they are first met
first_seen(events, field, seen) ==
    LET is_first(i) == /\ events[i][field] \notin seen
                       /\ \A j \in 1..(i - 1) : events[j][field] # events[i][field]
        firsts == SelectSeq([i \in 1..Len(events) |-> i], is_first) IN
    [k \in 1..Len(firsts) |-> events[firsts[k]][field]]

\* (mutant) the count misses the first event
count_from_second(events, field, v) ==
    Cardinality({ i \in 2..Len(events) : events[i][field] = v })

\* the number of events with value v in a field
count_of(events, field, v) ==
    Cardinality({ i \in 1..Len(events) : events[i][field] = v })

\* (mutant) the sort is ascending
insert_asc(sorted, x, kind) ==
    LET before == { i \in 1..Len(sorted) : sorted[i].count <= x.count }
        n == Cardinality(before) IN
    SubSeq(sorted, 1, n) \o << x >> \o SubSeq(sorted, n + 1, Len(sorted))

\* insert entry x into a sequence sorted by descending count; x is met later
\* than every entry of the sequence
insert_desc(sorted, x, kind) ==
    LET before == { i \in 1..Len(sorted) :
                      IF kind = "stable" THEN sorted[i].count >= x.count
                      ELSE sorted[i].count > x.count }
        n == Cardinality(before) IN
    SubSeq(sorted, 1, n) \o << x >> \o SubSeq(sorted, n + 1, Len(sorted))

\* sort_values(ascending=False) of the counts
RECURSIVE sort_desc(_, _)
sort_desc(entries, kind) ==
    IF entries = << >> THEN << >>
    ELSE insert_desc(sort_desc(SubSeq(entries, 1, Len(entries) - 1), kind),
                     entries[Len(entries)], kind)

\* df[field].value_counts(): (value, count) entries, most frequent first
value_counts(events, field, kind) ==
    LET keys == first_seen(events, field, {}) IN
    sort_desc([i \in 1..Len(keys) |->
                 [key |-> keys[i], count |-> count_of(events, field, keys[i])]],
              kind)

\* (mutant) head() is left out
head_all(entries, n) == entries

\* Series.head(n)
head(entries, n) == SubSeq(entries, 1, IF Len(entries) < n THEN Len(entries) ELSE n)

\* pd.to_datetime of a timestamp text: the instant it denotes (in UTC)
to_datetime(ts) == fromisoformat(replace_Z(ts))

seq_min(xs) ==
    LET x == CHOOSE i \in 1..Len(xs) : \A j \in 1..Len(xs) : xs[i] <= xs[j] IN xs[x]

seq_max(xs) ==
    LET x == CHOOSE i \in 1..Len(xs) : \A j \in 1..Len(xs) : xs[i] >= xs[j] IN xs[x]

\* the sum of xs[lo..hi], by halves
RECURSIVE range_sum(_, _, _)
range_sum(xs, lo, hi) ==
    IF lo > hi THEN 0
    ELSE IF lo = hi THEN xs[lo]
    ELSE LET mid == (lo + hi) \div 2 IN
         range_sum(xs, lo, mid) + range_sum(xs, mid + 1, hi)

seq_sum(xs) == range_sum(xs, 1, Len(xs))

\* (mutant) only the hours that hold an event get a bucket
analyze_timeline_without_gaps(times) ==
    LET hours == { times[i] \div Hour : i \in 1..Len(times) }
        nth(b) == CHOOSE h \in hours : Cardinality({ g \in hours : g < h }) = b - 1 IN
    [labels |-> [b \in 1..Cardinality(hours) |-> nth(b) * Hour],
     values |-> [b \in 1..Cardinality(hours) |->
                   Cardinality({ i \in 1..Len(times) : times[i] \div Hour = nth(b) })]]

\* _analyze_timeline: resample('H').size(), one bucket per calendar hour from
\* the hour of the earliest event to the hour of the latest
analyze_timeline(times) ==
    LET first == seq_min(times) \div Hour
        last == seq_max(times) \div Hour IN
    [labels |-> [b \in 1..(last - first + 1) |-> (first + b - 1) * Hour],
     values |-> [b \in 1..(last - first + 1) |->
                   Cardinality({ i \in 1..Len(times) :
                                   times[i] \div Hour = first + b - 1 })]]

\* _analyze_events without the block of the intent; the mean of the risk
\* scores is kept as the fraction sum / count
analyze_events(events, kind) ==
    IF events = << >>
    THEN [total_events |-> 0,
          time_range |-> [start |-> << >>, end |-> << >>],
          event_types |-> << >>,
          severity_distribution |-> << >>,
          top_users |-> << >>,
          top_source_ips |-> << >>,
          countries |-> << >>,
          risk_scores |-> [average |-> [sum |-> 0, count |-> 1], max |-> 0, min |-> 0],
          timeline |-> [labels |-> << >>, values |-> << >>]]
    ELSE LET times == [i \in 1..Len(events) |-> to_datetime(events[i].timestamp)]
             risks == [i \in 1..Len(events) |-> events[i].risk_score] IN
         [total_events |-> Len(events),
          time_range |-> [start |-> << seq_min(times) >>, end |-> << seq_max(times) >>],
          event_types |-> head(value_counts(events, "event_type", kind), 10),
          severity_distribution |-> value_counts(events, "severity", kind),
          top_users |-> head(value_counts(events, "user", kind), 10),
          top_source_ips |-> head(value_counts(events, "source_ip", kind), 10),
          countries |-> value_counts(events, "country", kind),
          risk_scores |-> [average |-> [sum |-> seq_sum(risks), count |-> Len(events)],
                           max |-> seq_max(risks), min |-> seq_min(risks)],
          timeline |-> analyze_timeline(times)]

\* list(d.keys())[:n] and list(d.values())[:n] of a distribution
chart_series(dist, n) ==
    [labels |-> [i \in 1..(IF Len(dist) < n THEN Len(dist) ELSE n) |-> dist[i].key],
     values |-> [i \in 1..(IF Len(dist) < n THEN Len(dist) ELSE n) |-> dist[i].count]]

\* list(d.keys()) and list(d.values()) of a distribution
chart_series_all(dist) ==
    [labels |-> [i \in 1..Len(dist) |-> dist[i].key],
     values |-> [i \in 1..Len(dist) |-> dist[i].count]]

\* the body of the loop of _prepare_chart_data: chart_data after chart_type
chart_step(acc, a, chart_type) ==
    CASE chart_type = "timeline" /\ "timeline" \in DOMAIN a ->
           [k \in DOMAIN acc \cup {"timeline"} |->
              IF k = "timeline" THEN a.timeline ELSE acc[k]]
      [] chart_type = "event_types" /\ "event_types" \in DOMAIN a ->
           [k \in DOMAIN acc \cup {"event_types"} |->
              IF k = "event_types" THEN chart_series_all(a.event_types) ELSE acc[k]]
      [] chart_type = "severity_distribution" /\ "severity_distribution" \in DOMAIN a ->
           [k \in DOMAIN acc \cup {"severity_distribution"} |->
              IF k = "severity_distribution"
              THEN chart_series_all(a.severity_distribution) ELSE acc[k]]
      [] chart_type = "top_users" /\ "top_users" \in DOMAIN a ->
           [k \in DOMAIN acc \cup {"top_users"} |->
              IF k = "top_users" THEN chart_series(a.top_users, 10) ELSE acc[k]]
      [] chart_type = "geo_distribution" /\ "countries" \in DOMAIN a ->
           [k \in DOMAIN acc \cup {"geo_distribution"} |->
              IF k = "geo_distribution" THEN chart_series(a.countries, 15) ELSE acc[k]]
      [] OTHER -> acc

\* the loop over chart_types[:limit]
RECURSIVE chart_loop(_, _, _, _, _)
chart_loop(acc, a, chart_types, i, limit) ==
    IF i > Len(chart_types) \/ i > limit THEN acc
    ELSE chart_loop(chart_step(acc, a, chart_types[i]), a, chart_types, i + 1, limit)

\* (mutant) every requested chart type is served
prepare_chart_data_no_limit(a, chart_types) ==
    chart_loop(<< >>, a, chart_types, 1, Len(chart_types))

\* _prepare_chart_data: "for chart_type in chart_types[:4]"
prepare_chart_data(a, chart_types) ==
    chart_loop(<< >>, a, chart_types, 1, 4)

\* the chart types a caller of _prepare_chart_data requests: the lists of
\* _suggest_chart_types and lists of five types
ChartRequests ==
    { chart_mapping(intent) :
        intent \in {"failed_logins", "brute_force", "malware_detection",
                    "suspicious_activity", "top_users", "geographic_analysis",
                    "time_analysis", "general_search"} }
    \cup { << "top_ips", "geo_distribution", "top_users", "heatmap", "timeline" >>,
           << "severity_distribution", "event_types", "top_users",
              "geo_distribution", "timeline" >>,
           << "timeline", "timeline", "world_map", "risk_distribution",
              "event_types" >>,
           << >> }

(***************************************************************************)
(* The aggregation alone: a filtered event list is built, a few events of  *)
(* few users and countries first, then events that each bring a new user,  *)
(* source address and country; _analyze_events is applied to it.           *)
(***************************************************************************)
MaxPrefix == 3
MaxFresh == 15

user_names ==
    << "user1", "user2", "user3", "user4", "user5", "user6", "user7", "user8",
       "user9", "user10", "user11", "user12", "user13", "user14", "user15",
       "user16", "admin", "root" >>

ip_addresses ==
    << "103.100.1.1", "198.1.1.1", "1.0.0.1", "1.0.0.2", "1.0.0.3", "1.0.0.4",
       "1.0.0.5", "1.0.0.6", "1.0.0.7", "1.0.0.8", "1.0.0.9", "1.0.0.10",
       "1.0.0.11", "1.0.0.12", "1.0.0.13", "1.0.0.14", "1.0.0.15", "1.0.0.16" >>

\* the events the list starts with
PrefixDraws ==
    { [event_type |-> "failed_login", country |-> "IN", days_ago |-> 29,
       hours_ago |-> 0, minutes_ago |-> 0, source_ip |-> ip_addresses[1],
       user |-> user_names[1], risk_score |-> 40],
      [event_type |-> "malware_detected", country |-> "US", days_ago |-> 29,
       hours_ago |-> 2, minutes_ago |-> 30, source_ip |-> ip_addresses[2],
       user |-> user_names[2], risk_score |-> 100],
      [event_type |-> "failed_login", country |-> "IN", days_ago |-> 29,
       hours_ago |-> 0, minutes_ago |-> 59, source_ip |-> ip_addresses[1],
       user |-> user_names[2], risk_score |-> 70] }

\* the k-th event that brings new values
FreshDraw(k) ==
    LET event_type == event_types[(k % Len(event_types)) + 1] IN
    [event_type |-> event_type, country |-> countries[k + 2], days_ago |-> 29,
     hours_ago |-> k % 3, minutes_ago |-> k, source_ip |-> ip_addresses[k + 2],
     user |-> user_names[k + 2],
     risk_score |-> CHOOSE r \in risk_range(event_type) :
                      \A q \in risk_range(event_type) : r <= q]

InitAgg ==
    /\ pc = "start"
    /\ query = << >>
    /\ parsed_query = NoParse
    /\ sample_data = << >>
    /\ now = 0
    /\ query_context = << >>
    /\ time_filtered = << >>
    /\ \E n \in 0..MaxPrefix : \E rs \in [1..n -> PrefixDraws] :
         filtered_events = [i \in 1..n |-> make_event(i - 1, 12 * Hour, rs[i])]
    /\ refiltered = << >>
    /\ sort_kind \in SortKinds
    /\ analysis = << >>
    /\ result = << >>
    /\ chart_data = << >>
    /\ requests = << >>
    /\ generated = << >>
    /\ security_events = << >>
    /\ outcome = ""
    /\ other_context = << >>
    /\ other_filtered = << >>

\* the number of events of the list that brought new values
Fresh == { i \in 1..Len(filtered_events) :
             \E k \in 1..MaxFresh : filtered_events[i].user = user_names[k + 2] }

\* one more event in the filtered list
AppendEvent ==
    /\ pc = "start"
    /\ Cardinality(Fresh) < MaxFresh
    /\ filtered_events' =
         Append(filtered_events,
                make_event(Len(filtered_events), 12 * Hour,
                           FreshDraw(Cardinality(Fresh) + 1)))
    /\ UNCHANGED << source_vars, compare_vars,
                    pc, nlp_vars, sample_data, now, query_context, time_filtered,
                    refiltered, agg_vars, engine_vars >>

\* AnalyticsEngine._analyze_events(filtered_events, parsed_query)
AnalyzeEvents ==
    /\ pc = "start"
    /\ analysis' = analyze_events(filtered_events, sort_kind)
    /\ pc' = "analyzed"
    /\ UNCHANGED << source_vars, compare_vars,
                    nlp_vars, filter_vars, sort_kind, engine_vars >>

\* AnalyticsEngine._prepare_chart_data(analysis, chart_types)
PrepareChartData(chart_types) ==
    /\ pc = "analyzed"
    /\ chart_data' = [requested |-> chart_types,
                      prepared |-> prepare_chart_data(analysis, chart_types)]
    /\ pc' = "charted"
    /\ UNCHANGED << source_vars, compare_vars,
                    nlp_vars, filter_vars, agg_vars, result, requests >>

NextAgg ==
    \/ AppendEvent
    \/ AnalyzeEvents
    \/ \E chart_types \in ChartRequests : PrepareChartData(chart_types)

SpecAgg == InitAgg /\ [][NextAgg]_vars

(***************************************************************************)
(* The aggregation's claims, checked under SpecAgg.                        *)
(***************************************************************************)
Analyzed == pc = "analyzed"

\* the distributions of the analysis and the event field each one groups
Distributions ==
    { << "event_types", "event_type" >>, << "severity_distribution", "severity" >>,
      << "top_users", "user" >>, << "top_source_ips", "source_ip" >>,
      << "countries", "country" >> }

Truncated == { << "event_types", "event_type" >>, << "top_users", "user" >>,
               << "top_source_ips", "source_ip" >> }

\* the values a field takes in the filtered events, and how often
ValuesOf(field) == { filtered_events[i][field] : i \in 1..Len(filtered_events) }
Occurrences(field, v) ==
    Cardinality({ i \in 1..Len(filtered_events) : filtered_events[i][field] = v })
FirstIndex(field, v) ==
    CHOOSE i \in 1..Len(filtered_events) :
      /\ filtered_events[i][field] = v
      /\ \A j \in 1..(i - 1) : filtered_events[j][field] # v

DescendingExact(d) ==
    LET dist == analysis[d[1]] IN
    /\ \A i, j \in 1..Len(dist) : i < j => dist[i].count >= dist[j].count
    /\ \A i, j \in 1..Len(dist) : i # j => dist[i].key # dist[j].key
    /\ \A i \in 1..Len(dist) : dist[i].count = Occurrences(d[2], dist[i].key)

\* groups with the same count stand in the order in which they were first met
TiesFirstMet(d) ==
    LET dist == analysis[d[1]] IN
    \A i, j \in 1..Len(dist) :
      (i < j /\ dist[i].count = dist[j].count)
        => FirstIndex(d[2], dist[i].key) < FirstIndex(d[2], dist[j].key)

RECURSIVE CountSum(_)
CountSum(entries) ==
    IF entries = << >> THEN 0 ELSE entries[1].count + CountSum(Tail(entries))

\* C10: for each of the five grouping fields the counts of the full
\* (untruncated) group-by over the filtered set sum to total_events, and
\* total_events is the number of filtered events; the reported entries are the
\* first 10 of that group-by (all of it for severity and countries), so they
\* are fixed by the events, their order and the installed sort.
C10_CountsSumToTotal ==
    Analyzed =>
      /\ analysis.total_events = Len(filtered_events)
      /\ \A d \in Distributions :
           LET full == value_counts(filtered_events, d[2], sort_kind) IN
           /\ CountSum(full) = analysis.total_events
           /\ analysis[d[1]] = IF d \in Truncated
                               THEN SubSeq(full, 1, IF Len(full) < 10 THEN Len(full) ELSE 10)
                               ELSE full

\* C10 witness: an analysed set of more than 10 events with more than 10 users,
\* where the reported users do not sum to the total.
C10_Witness ==
    /\ Analyzed
    /\ analysis.total_events > 10
    /\ Cardinality(ValuesOf("user")) > 10
    /\ CountSum(analysis.top_users) < analysis.total_events

Charted == pc = "charted"

\* the chart types _prepare_chart_data knows, each with the key of its entry
\* and the event field its source groups ("" for the timeline)
KnownCharts ==
    { << "timeline", "" >>, << "event_types", "event_type" >>,
      << "severity_distribution", "severity" >>, << "top_users", "user" >>,
      << "geo_distribution", "country" >> }

\* the chart types among the first 4 requested
FirstFour ==
    { chart_data.requested[i] :
        i \in { j \in 1..Len(chart_data.requested) : j <= 4 } }

\* the filtered events of the hour that starts at the instant t
EventsInHour(t) ==
    { i \in 1..Len(filtered_events) :
        to_datetime(filtered_events[i].timestamp) \div Hour = t \div Hour }

\* C16: chart_data has an entry exactly for the chart types that are among the
\* first 4 requested and are one of timeline, event_types,
\* severity_distribution, top_users, geo_distribution (their source fields are
\* in every analysis); every other requested type is skipped; top_users has at
\* most 10 points and geo_distribution at most 15; labels and values have the
\* same length and the i-th value is the count of the i-th label.
C16_ChartData ==
    Charted =>
      LET prepared == chart_data.prepared IN
      /\ DOMAIN prepared = { k \in FirstFour : \E c \in KnownCharts : c[1] = k }
      /\ \A c \in KnownCharts :
           c[1] \in DOMAIN prepared =>
             LET entry == prepared[c[1]] IN
             /\ Len(entry.labels) = Len(entry.values)
             /\ c[1] = "top_users" => Len(entry.labels) <= 10
             /\ c[1] = "geo_distribution" => Len(entry.labels) <= 15
             /\ \A i \in 1..Len(entry.labels) :
                  entry.values[i] =
                    IF c[2] = "" THEN Cardinality(EventsInHour(entry.labels[i]))
                    ELSE Occurrences(c[2], entry.labels[i])

\* C16 witness: five chart types were requested over a set with more than 15
\* countries; the fifth and an unknown type have no entry, the
\* geo_distribution series has 15 points.
C16_Witness ==
    /\ Charted
    /\ Len(chart_data.requested) = 5
    /\ chart_data.requested[5] = "timeline"
    /\ "timeline" \notin DOMAIN chart_data.prepared
    /\ "geo_distribution" \in DOMAIN chart_data.prepared
    /\ Cardinality(ValuesOf("country")) > 15
    /\ Len(chart_data.prepared["geo_distribution"].labels) = 15
    /\ Cardinality(DOMAIN chart_data.prepared) < 4

\* the calendar hours (numbered from the midnight of the base day) in which
\* the filtered events fall
EventHours ==
    { to_datetime(filtered_events[i].timestamp) \div Hour :
        i \in 1..Len(filtered_events) }

\* the sum of the first n values of a timeline
RECURSIVE ValueSum(_, _)
ValueSum(values, n) == IF n = 0 THEN 0 ELSE values[n] + ValueSum(values, n - 1)

lookup(dist, key, default) ==
    IF \E i \in 1..Len(dist) : dist[i].key = key
    THEN dist[CHOOSE i \in 1..Len(dist) : dist[i].key = key].count
    ELSE default

\* d.get(key, default) on a dict
get_or(d, key, default) == IF key \in DOMAIN d THEN d[key] ELSE default

\* df[df['event_type'].isin(types)]
select_events(events, types) ==
    LET selected(e) == e.event_type \in types IN
    SelectSeq(events, selected)

\* Series.nunique()
nunique(events, field) ==
    Cardinality({ events[i][field] : i \in 1..Len(events) })

\* (mutant) the label of the last largest value
idxmax_last(series) ==
    LET m == seq_max(series.values)
        i == CHOOSE i \in 1..Len(series.values) :
               /\ series.values[i] = m
               /\ \A j \in (i + 1)..Len(series.values) : series.values[j] # m IN
    series.labels[i]

\* Series.idxmax(): the label of the first largest value
idxmax(series) ==
    LET m == seq_max(series.values)
        i == CHOOSE i \in 1..Len(series.values) :
               /\ series.values[i] = m
               /\ \A j \in 1..(i - 1) : series.values[j] # m IN
    series.labels[i]

\* _analyze_failed_logins; peak_hour is the instant its text denotes, '' is << >>
analyze_failed_logins(events) ==
    LET failed_logins == select_events(events, {"failed_login"}) IN
    IF Len(failed_logins) = 0
    THEN [total_failed |-> 0, unique_users |-> 0, unique_ips |-> 0,
          peak_hour |-> << >>]
    ELSE LET peak_time ==
               analyze_timeline([i \in 1..Len(failed_logins) |->
                                   to_datetime(failed_logins[i].timestamp)]) IN
         [total_failed |-> Len(failed_logins),
          unique_users |-> nunique(failed_logins, "user"),
          unique_ips |-> nunique(failed_logins, "source_ip"),
          peak_hour |-> IF Len(peak_time.values) > 0
                        THEN << idxmax(peak_time) >> ELSE << >>]

\* (mutant) an address is flagged from 5 events on
analyze_brute_force_from_5(events) ==
    LET failed_logins == select_events(events, {"failed_login", "brute_force_attempt"})
        ips == { failed_logins[i].source_ip : i \in 1..Len(failed_logins) }
        ip_counts == [ip \in ips |-> count_of(failed_logins, "source_ip", ip)]
        suspicious_ips == { ip \in ips : ip_counts[ip] >= 5 } IN
    [suspicious_ips_count |-> Cardinality(suspicious_ips),
     total_attempts |-> Len(failed_logins),
     suspicious_ips |-> [ip \in suspicious_ips |-> ip_counts[ip]]]

\* _analyze_brute_force; suspicious_ips maps each flagged address to its count
analyze_brute_force(events) ==
    LET failed_logins == select_events(events, {"failed_login", "brute_force_attempt"})
        ips == { failed_logins[i].source_ip : i \in 1..Len(failed_logins) }
        ip_counts == [ip \in ips |-> count_of(failed_logins, "source_ip", ip)]
        suspicious_ips == { ip \in ips : ip_counts[ip] > 5 } IN
    [suspicious_ips_count |-> Cardinality(suspicious_ips),
     total_attempts |-> Len(failed_logins),
     suspicious_ips |-> [ip \in suspicious_ips |-> ip_counts[ip]]]

\* _analyze_geographic
analyze_geographic(events, kind) ==
    LET country_counts == value_counts(events, "country", kind) IN
    [total_countries |-> nunique(events, "country"),
     top_country |-> IF Len(events) > 0 THEN country_counts[1].key ELSE "",
     top_country_count |-> IF Len(events) > 0 THEN country_counts[1].count ELSE 0,
     india_events |-> IF \E i \in 1..Len(events) : events[i].country = "IN"
                      THEN Len(keep_equal(events, "country", "IN")) ELSE 0]

\* (mutant) the block of the intent is built for the empty list too
analyze_events_for_always_block(events, parsed, kind) ==
    LET base == analyze_events(events, kind) IN
    CASE parsed.intent = "failed_logins" ->
           [failed_login_analysis |-> analyze_failed_logins(events)] @@ base
      [] parsed.intent = "brute_force" ->
           [brute_force_analysis |-> analyze_brute_force(events)] @@ base
      [] parsed.intent = "geographic_analysis" ->
           [geographic_analysis |-> analyze_geographic(events, kind)] @@ base
      [] OTHER -> base

\* _analyze_events(events, parsed_query): the common part and the block of the
\* intent; the empty list returns before the block
analyze_events_for(events, parsed, kind) ==
    LET base == analyze_events(events, kind) IN
    IF events = << >> THEN base
    ELSE CASE parsed.intent = "failed_logins" ->
                [failed_login_analysis |-> analyze_failed_logins(events)] @@ base
           [] parsed.intent = "brute_force" ->
                [brute_force_analysis |-> analyze_brute_force(events)] @@ base
           [] parsed.intent = "geographic_analysis" ->
                [geographic_analysis |-> analyze_geographic(events, kind)] @@ base
           [] OTHER -> base

\* an insight; cites holds the numbers its message names
insight(type, title, cites) == [type |-> type, title |-> title, cites |-> cites]

\* (mutant) the failed-login rule fires from 50 on
failed_login_insight_from_50(an, parsed) ==
    IF parsed.intent = "failed_logins"
    THEN LET failed_analysisalysis == get_or(an, "failed_login_analysis", << >>) IN
         IF get_or(failed_analysisalysis, "total_failed", 0) >= 50
         THEN << insight("danger", "Elevated Failed Login Activity",
                         << get_or(failed_analysisalysis, "total_failed", 0),
                            get_or(failed_analysisalysis, "unique_ips", 0) >>) >>
         ELSE << >>
    ELSE << >>

\* "# Failed login insights"
failed_login_insight(an, parsed) ==
    IF parsed.intent = "failed_logins"
    THEN LET failed_analysisalysis == get_or(an, "failed_login_analysis", << >>) IN
         IF get_or(failed_analysisalysis, "total_failed", 0) > 50
         THEN << insight("danger", "Elevated Failed Login Activity",
                         << get_or(failed_analysisalysis, "total_failed", 0),
                            get_or(failed_analysisalysis, "unique_ips", 0) >>) >>
         ELSE << >>
    ELSE << >>

\* "# High risk events insight"
high_risk_insight(an) ==
    LET high_risk_count ==
          lookup(get_or(an, "severity_distribution", << >>), "high", 0)
            + lookup(get_or(an, "severity_distribution", << >>), "critical", 0) IN
    IF high_risk_count > 0
    THEN << insight("warning", "High Risk Events Detected", << high_risk_count >>) >>
    ELSE << >>

\* "# Brute force insights"
brute_force_insight(an, parsed) ==
    IF parsed.intent = "brute_force"
    THEN LET brute_analysisalysis == get_or(an, "brute_force_analysis", << >>) IN
         IF get_or(brute_analysisalysis, "suspicious_ips_count", 0) > 0
         THEN << insight("danger", "Potential Brute Force Attacks",
                         << get_or(brute_analysisalysis, "suspicious_ips_count", 0) >>) >>
         ELSE << >>
    ELSE << >>

\* "# Geographic insights for India"
india_insight(an) ==
    LET geo_analysisalysis == get_or(an, "geographic_analysis", << >>) IN
    IF get_or(geo_analysisalysis, "india_events", 0) > 100
    THEN << insight("info", "High Activity from India", << geo_analysisalysis.india_events >>) >>
    ELSE << >>

\* _generate_insights
generate_insights(an, parsed) ==
    IF get_or(an, "total_events", 0) = 0
    THEN << insight("info", "No Events Found", << >>) >>
    ELSE high_risk_insight(an) \o failed_login_insight(an, parsed)
           \o brute_force_insight(an, parsed) \o india_insight(an)

\* dt.strftime('%I:%M %p')
strftime_I_M_p(t) ==
    LET hour == (t % Day) \div Hour IN
    [hour |-> IF hour % 12 = 0 THEN 12 ELSE hour % 12,
     minute |-> (t % Hour) \div Minute,
     ampm |-> IF hour < 12 THEN "AM" ELSE "PM"]

\* a summary: the sentence pattern, the time phrase, the numbers and the name
\* the pattern is filled with, the peak time
summary_text(template, time_phrase, counts, name, peak_time) ==
    [template |-> template, time_phrase |-> time_phrase, counts |-> counts,
     name |-> name, peak_time |-> peak_time]

NoTimePhrase == << >>
NoPeakTime == [hour |-> 0, minute |-> 0, ampm |-> ""]
UnknownTime == [hour |-> 0, minute |-> 0, ampm |-> "unknown time"]

\* (mutant) the phrase of a number of units, for yesterday too
time_phrase_always_last(time_range) ==
    << "in the last ", time_range.value, " ", time_range.unit >>

\* the time phrase of _generate_summary, as the pieces the f-string joins
time_phrase_of(time_range) ==
    IF time_range.unit = "yesterday"
    THEN << "yesterday" >>
    ELSE << "in the last ", time_range.value, " ", time_range.unit >>

\* _generate_summary
generate_summary(an, parsed) ==
    LET total_events == get_or(an, "total_events", 0) IN
    IF total_events = 0
    THEN summary_text("No security events found matching your query criteria.",
                      NoTimePhrase, << >>, "", NoPeakTime)
    ELSE
    LET intent == parsed.intent
        time_range == parsed.entities.time_range
        time_phrase == time_phrase_of(time_range)
    IN
    CASE intent = "failed_logins" ->
           LET failed_analysis == get_or(an, "failed_login_analysis", << >>)
               peak_hour == get_or(failed_analysis, "peak_hour", << >>)
               peak_time == IF peak_hour # << >>
                            THEN strftime_I_M_p(peak_hour[1]) ELSE UnknownTime IN
           summary_text("Found .. failed login attempts", time_phrase,
                        << get_or(failed_analysis, "total_failed", 0),
                           get_or(failed_analysis, "unique_users", 0) >>,
                        "", peak_time)
      [] intent = "successful_logins" ->
           LET successful_logins == lookup(get_or(an, "event_types", << >>),
                                           "successful_login", 0)
               unique_users == get_or(an, "top_users", << >>)
               top_user == IF unique_users # << >> THEN unique_users[1].key ELSE "N/A"
               top_count == IF unique_users # << >> THEN unique_users[1].count ELSE 0 IN
           summary_text("Detected .. successful logins", time_phrase,
                        << successful_logins, Len(unique_users), top_count >>,
                        top_user, NoPeakTime)
      [] intent = "brute_force" ->
           LET brute_analysis == get_or(an, "brute_force_analysis", << >>) IN
           summary_text("Identified .. suspicious IPs", time_phrase,
                        << get_or(brute_analysis, "suspicious_ips_count", 0),
                           get_or(brute_analysis, "total_attempts", 0) >>,
                        "", NoPeakTime)
      [] intent = "geographic_analysis" ->
           LET country_counts == get_or(an, "countries", << >>)
               top_country == IF country_counts # << >>
                              THEN country_counts[1].key ELSE "N/A"
               top_count == IF country_counts # << >>
                            THEN country_counts[1].count ELSE 0
               india_count == lookup(country_counts, "IN", 0) IN
           summary_text("Geographic analysis", time_phrase,
                        << Len(country_counts), top_count, india_count >>,
                        top_country, NoPeakTime)
      [] OTHER ->
           LET types == get_or(an, "event_types", << >>)
               top_event_type == IF types # << >> THEN types[1].key ELSE "N/A"
               top_event_count == IF types # << >> THEN types[1].count ELSE 0 IN
           summary_text("Found .. security events", time_phrase,
                        << total_events, top_event_count,
                           Len(get_or(an, "countries", << >>)) >>,
                        top_event_type, NoPeakTime)

\* (mutant) the whole filtered list is shown
table_sample_all(events) == events

\* filtered_events[:100]
table_sample(events) ==
    SubSeq(events, 1, IF Len(events) < 100 THEN Len(events) ELSE 100)

\* (mutant) the rows shown depend on the number random.uniform drew
engine_results_random_rows(parsed, events, kind, processing_time) ==
    LET an == analyze_events_for(events, parsed, kind) IN
    [summary |-> generate_summary(an, parsed),
     insights |-> generate_insights(an, parsed),
     chart_data |-> prepare_chart_data(an, parsed.chart_types),
     analysis |-> an,
     table_data |-> IF processing_time > 10 /\ events # << >>
                    THEN table_sample(Tail(events)) ELSE table_sample(events),
     total_events |-> Len(events),
     sampled_events |-> IF 100 < Len(events) THEN 100 ELSE Len(events),
     processing_time |-> processing_time,
     data_source |-> "SIEM Database + Threat Intelligence"]

\* AnalyticsEngine.process_query after get_filtered_data returned events;
\* processing_time is the number random.uniform drew
engine_results(parsed, events, kind, processing_time) ==
    LET an == analyze_events_for(events, parsed, kind) IN
    [summary |-> generate_summary(an, parsed),
     insights |-> generate_insights(an, parsed),
     chart_data |-> prepare_chart_data(an, parsed.chart_types),
     analysis |-> an,
     table_data |-> table_sample(events),
     total_events |-> Len(events),
     sampled_events |-> IF 100 < Len(events) THEN 100 ELSE Len(events),
     processing_time |-> processing_time,
     data_source |-> "SIEM Database + Threat Intelligence"]

\* AnalyticsEngine.process_query over the event list store at the clock
\* reading clock
engine_process_query(parsed, store, clock, kind, processing_time) ==
    engine_results(parsed, filter_events(store, parsed.entities, clock), kind,
                   processing_time)

(***************************************************************************)
(* The analytics engine: one call of AnalyticsEngine.process_query on the  *)
(* parse of a query text, over a store of up to a few hundred events whose *)
(* counts lie on both sides of the thresholds of the engine.               *)
(***************************************************************************)
EngineTexts ==
  { <<"f", "a", "i", "l", "e", "d", " ", "l", "o", "g", "i", "n">>,
    <<"s", "u", "c", "c", "e", "s", "s", "f", "u", "l", " ", "l", "o", "g", "i", "n">>,
    <<"m", "u", "l", "t", "i", "p", "l", "e", " ", "f", "a", "i", "l", "e", "d">>,
    <<"m", "a", "l", "w", "a", "r", "e">>,
    <<"s", "u", "s", "p", "i", "c", "i", "o", "u", "s">>,
    <<"t", "o", "p", " ", "u", "s", "e", "r">>,
    <<"c", "o", "u", "n", "t", "r", "y">>,
    <<"t", "i", "m", "e", "l", "i", "n", "e">>,
    <<"s", "h", "o", "w", " ", "e", "v", "e", "n", "t", "s">>,
    <<"F", "r", "o", "m", " ", "I", "N", "D", "I", "A">>,
    <<"h", "i", "g", "h">>,
    <<"s", "h", "o", "w", " ", "e", "v", "e", "n", "t", "s", " ", "y", "e", "s", "t", "e", "r", "d", "a", "y">>,
    <<"f", "a", "i", "l", "e", "d", " ", "l", "o", "g", "i", "n", " ", "y", "e", "s", "t", "e", "r", "d", "a", "y">>,
    <<"c", "o", "u", "n", "t", "r", "y", " ", "l", "a", "s", "t", " ", "2", " ", "d", "a", "y", "s">>,
    <<"s", "u", "s", "p", "i", "c", "i", "o", "u", "s", " ", "t", "o", "d", "a", "y">>,
    <<"f", "a", "i", "l", "e", "d", " ", "l", "o", "g", "i", "n", " ", "t", "o", "p", " ", "2", "0">> }

\* n events that repeat one draw, the source address taken in turn from a
\* range of ip_addresses
block(first_id, n, base_time, draw, first_ip, ips) ==
    [i \in 1..n |->
       make_event(first_id + i - 1, base_time,
                  [draw EXCEPT !.source_ip = ip_addresses[first_ip + ((i - 1) % ips)]])]

\* the events of the last day: failed logins from India from one address,
\* brute-force attempts from the USA from another, failed logins from India
\* spread over many addresses and users, successful logins from the UK
RecentDraw(event_type, country, user, risk_score) ==
    [event_type |-> event_type, country |-> country, days_ago |-> 30,
     hours_ago |-> 0, minutes_ago |-> 0, source_ip |-> ip_addresses[1],
     user |-> user, risk_score |-> risk_score]

\* an event of an earlier day: of the first day of the store, or of the day
\* before the last one, a minute outside the window of the last 24 hours
OldDraw(days_ago) ==
    [event_type |-> "malware_detected", country |-> "CN", days_ago |-> days_ago,
     hours_ago |-> 0, minutes_ago |-> 0, source_ip |-> ip_addresses[18],
     user |-> "root", risk_score |-> 90]

\* failed logins of the last day, two hours before the other events of that day
MorningDraw ==
    [event_type |-> "failed_login", country |-> "IN", days_ago |-> 29,
     hours_ago |-> 22, minutes_ago |-> 15, source_ip |-> ip_addresses[17],
     user |-> "user5", risk_score |-> 45]

SingleCounts == {0, 5, 6}
SpreadCounts == {0, 45, 95}
QuietCounts == {0, 3}
MorningCounts == {0, 5}
OldDays == {0, 29}

EngineStore(base_time, a, b, c, d, m, old) ==
    block(0, 1, base_time, OldDraw(old), 18, 1)
      \o block(1, a, base_time, RecentDraw("failed_login", "IN", "user1", 40), 1, 1)
      \o block(1 + a, b, base_time,
               RecentDraw("brute_force_attempt", "US", "user2", 70), 2, 1)
      \o block(1 + a + b, c, base_time,
               RecentDraw("failed_login", "IN", "user3", 55), 3, 15)
      \o block(1 + a + b + c, d, base_time,
               RecentDraw("successful_login", "UK", "user4", 10), 2, 1)
      \o block(1 + a + b + c + d, m, base_time, MorningDraw, 17, 1)

\* the stores: every mix of the four blocks of the last instant, and the
\* small mixes with the morning block and the older event on either day
EngineStores(base_time) ==
    { EngineStore(base_time, a, b, c, d, 0, 0) :
        a \in SingleCounts, b \in SingleCounts, c \in SpreadCounts,
        d \in QuietCounts }
    \cup { EngineStore(base_time, a, 0, 0, d, m, old) :
             a \in SingleCounts, d \in QuietCounts, m \in MorningCounts,
             old \in OldDays }

\* f"{random.uniform(0.1, 0.5):.2f}s", in hundredths of a second
ProcessingTimes == {10, 50}

InitEngine ==
    /\ pc = "start"
    /\ query \in EngineTexts
    /\ parsed_query = NoParse
    /\ sample_data \in EngineStores(12 * Hour)
    /\ now = 12 * Hour + 30 * Day + QueryDelay
    /\ query_context = << >>
    /\ time_filtered = << >>
    /\ filtered_events = << >>
    /\ refiltered = << >>
    /\ sort_kind \in SortKinds
    /\ analysis = << >>
    /\ result = << >>
    /\ chart_data = << >>
    /\ requests = << >>
    /\ generated = << >>
    /\ security_events = << >>
    /\ outcome = ""
    /\ other_context = << >>
    /\ other_filtered = << >>

\* nlp_processor.parse_query(query)
EngineParse ==
    /\ pc = "start"
    /\ parsed_query' = parse_query(query)
    /\ pc' = "parsed"
    /\ UNCHANGED << source_vars, compare_vars,
                    query, filter_vars, agg_vars, engine_vars >>

\* analytics_engine.process_query(parsed_query)
EngineProcess(processing_time) ==
    /\ pc = "parsed"
    /\ result' = engine_process_query(parsed_query, sample_data, now, sort_kind,
                                      processing_time)
    /\ query_context' = parsed_query.entities
    /\ filtered_events' = filter_events(sample_data, parsed_query.entities, now)
    /\ analysis' = result'.analysis
    /\ pc' = "processed"
    /\ UNCHANGED << source_vars, compare_vars,
                    nlp_vars, sample_data, now, time_filtered, refiltered,
                    sort_kind, chart_data, requests >>

NextEngine ==
    \/ EngineParse
    \/ \E processing_time \in ProcessingTimes : EngineProcess(processing_time)

SpecEngine == InitEngine /\ [][NextEngine]_vars

(***************************************************************************)
(* The engine's claims, checked under SpecEngine.                          *)
(***************************************************************************)
Processed == pc = "processed"

\* the filtered events that satisfy a condition on type, severity, country
FilteredWith(types, severities, in_countries) ==
    { i \in 1..Len(filtered_events) :
        /\ filtered_events[i].event_type \in types
        /\ filtered_events[i].severity \in severities
        /\ filtered_events[i].country \in in_countries }

AllTypes == { event_types[i] : i \in 1..Len(event_types) }
AllSeverities == {"low", "medium", "high", "critical"}
AllCountries == { countries[i] : i \in 1..Len(countries) }

AnalysisKeys ==
    {"total_events", "time_range", "event_types", "severity_distribution",
     "top_users", "top_source_ips", "countries", "risk_scores", "timeline"}

\* C11: for an empty filtered set, whatever the intent, _analyze_events returns
\* total_events 0, time_range {'', ''}, the five distributions empty,
\* risk_scores all 0 and an empty timeline, and nothing else (no block of the
\* intent); the summary is the no-events sentence and every chart that is
\* prepared has empty labels and values.
C11_EmptySet ==
    (Processed /\ filtered_events = << >>) =>
      /\ DOMAIN result.analysis = AnalysisKeys
      /\ result.analysis.total_events = 0
      /\ result.analysis.time_range = [start |-> << >>, end |-> << >>]
      /\ \A d \in Distributions : result.analysis[d[1]] = << >>
      /\ result.analysis.risk_scores.average.sum = 0
      /\ result.analysis.risk_scores.max = 0
      /\ result.analysis.risk_scores.min = 0
      /\ result.analysis.timeline = [labels |-> << >>, values |-> << >>]
      /\ result.summary.template
           = "No security events found matching your query criteria."
      /\ \A k \in DOMAIN result.chart_data :
           result.chart_data[k] = [labels |-> << >>, values |-> << >>]
      /\ result.total_events = 0

\* C11 witness: a failed-logins query over a store with recent events, none
\* of which passes the filter, has been processed and charts were prepared.
C11_Witness ==
    /\ Processed
    /\ filtered_events = << >>
    /\ Len(sample_data) > 1
    /\ parsed_query.intent = "failed_logins"
    /\ DOMAIN result.chart_data # {}

\* the insights the first four rules give for the filtered set
HighCritical == Cardinality(FilteredWith(AllTypes, {"high", "critical"}, AllCountries))
FailedLogins == FilteredWith({"failed_login"}, AllSeverities, AllCountries)
Attempts == FilteredWith({"failed_login", "brute_force_attempt"}, AllSeverities,
                         AllCountries)
AttemptsFrom(ip) == { i \in Attempts : filtered_events[i].source_ip = ip }
AttemptSources == { filtered_events[i].source_ip : i \in Attempts }
Flagged == { ip \in AttemptSources : Cardinality(AttemptsFrom(ip)) > 5 }

ExpectedWarning ==
    IF HighCritical > 0
    THEN << [type |-> "warning", title |-> "High Risk Events Detected",
             cites |-> << HighCritical >>] >>
    ELSE << >>

ExpectedFailedLogin ==
    IF parsed_query.intent = "failed_logins" /\ Cardinality(FailedLogins) > 50
    THEN << "danger" >> ELSE << >>

ExpectedBruteForce ==
    IF parsed_query.intent = "brute_force" /\ Flagged # {}
    THEN << "danger" >> ELSE << >>

\* C12: for an empty filtered set the insights are exactly the one info insight
\* 'No Events Found'; for a non-empty set they are, in this order, the warning
\* when high + critical > 0 (citing that count), the failed-logins danger when
\* the intent is failed_logins and more than 50 failed logins were found, the
\* brute-force danger when the intent is brute_force and an address is
\* flagged, and last at most one info insight on India; each is there or not
\* independently of the others.
C12_InsightOrder ==
    Processed =>
      LET ins == result.insights
          w == Len(ExpectedWarning)
          f == Len(ExpectedFailedLogin)
          b == Len(ExpectedBruteForce) IN
      IF filtered_events = << >>
      THEN /\ Len(ins) = 1
           /\ ins[1].type = "info"
           /\ ins[1].title = "No Events Found"
      ELSE /\ Len(ins) \in {w + f + b, w + f + b + 1}
           /\ w = 1 => ins[1] = ExpectedWarning[1]
           /\ f = 1 => /\ ins[w + 1].type = "danger"
                       /\ ins[w + 1].title = "Elevated Failed Login Activity"
                       /\ ins[w + 1].cites[1] = Cardinality(FailedLogins)
           /\ b = 1 => /\ ins[w + f + 1].type = "danger"
                       /\ ins[w + f + 1].title = "Potential Brute Force Attacks"
                       /\ ins[w + f + 1].cites = << Cardinality(Flagged) >>
           /\ Len(ins) = w + f + b + 1 =>
                /\ ins[w + f + b + 1].type = "info"
                /\ ins[w + f + b + 1].title = "High Activity from India"

\* C12 witness: a failed-logins query with 51 failed logins and high-severity
\* events: the warning and the danger accumulate.
C12_Witness ==
    /\ Processed
    /\ parsed_query.intent = "failed_logins"
    /\ Cardinality(FailedLogins) = 51
    /\ HighCritical > 0
    /\ Len(result.insights) = 2

\* a non-empty set may have no insight at all
C12_NoInsight == Processed /\ filtered_events # << >> /\ result.insights = << >>

FromIndia == FilteredWith(AllTypes, AllSeverities, {"IN"})

HasIndiaInsight ==
    \E i \in 1..Len(result.insights) :
      /\ result.insights[i].type = "info"
      /\ result.insights[i].title = "High Activity from India"
      /\ result.insights[i].cites = << Cardinality(FromIndia) >>

\* C13: for every query, whatever its intent, the insights include the info
\* insight 'High Activity from India' citing the count exactly when the
\* filtered set has more than 100 events with country IN.
C13_IndiaInsight ==
    Processed => (HasIndiaInsight <=> Cardinality(FromIndia) > 100)

\* the India rule as the code has it: only under the geographic intent
C13_GeographicOnly ==
    Processed =>
      (HasIndiaInsight <=>
         (parsed_query.intent = "geographic_analysis" /\ Cardinality(FromIndia) > 100))

\* C14: in the brute_force sub-analysis the failed_login and
\* brute_force_attempt events are grouped by source_ip; an address is in
\* suspicious_ips exactly when it has more than 5 of them (6 is flagged, 5 is
\* not), it maps to its own count, suspicious_ips_count is the number of
\* flagged addresses and total_attempts counts all such events.
C14_BruteForceThreshold ==
    (Processed /\ "brute_force_analysis" \in DOMAIN result.analysis) =>
      LET bf == result.analysis.brute_force_analysis IN
      /\ DOMAIN bf.suspicious_ips = Flagged
      /\ \A ip \in Flagged : bf.suspicious_ips[ip] = Cardinality(AttemptsFrom(ip))
      /\ bf.suspicious_ips_count = Cardinality(Flagged)
      /\ bf.total_attempts = Cardinality(Attempts)

\* C14 witness: a brute-force query over a set where one address has 6
\* attempts and is flagged and another has 5 and is not.
C14_Witness ==
    /\ Processed
    /\ "brute_force_analysis" \in DOMAIN result.analysis
    /\ \E ip \in Flagged : Cardinality(AttemptsFrom(ip)) = 6
    /\ \E ip \in AttemptSources \ Flagged : Cardinality(AttemptsFrom(ip)) = 5
    /\ result.analysis.brute_force_analysis.total_attempts
         > result.analysis.brute_force_analysis.suspicious_ips_count

\* C15: table_data is the first 100 events of the filtered set in filtered
\* order (all of them when there are fewer), total_events is the size of the
\* filtered set, sampled_events = min(100, total_events) = the length of
\* table_data, and analysis.total_events = total_events.
C15_ResultComposition ==
    Processed =>
      LET n == Len(filtered_events) IN
      /\ result.total_events = n
      /\ result.sampled_events = IF n < 100 THEN n ELSE 100
      /\ Len(result.table_data) = result.sampled_events
      /\ \A i \in 1..Len(result.table_data) :
           result.table_data[i] = filtered_events[i]
      /\ result.analysis.total_events = result.total_events

\* C15 witness: a filtered set of more than 100 events.
C15_Witness ==
    /\ Processed
    /\ Len(filtered_events) > 100
    /\ Len(result.table_data) = 100

\* the sentence pattern _generate_summary has for an intent
TemplateOf(intent) ==
    CASE intent = "failed_logins" -> "Found .. failed login attempts"
      [] intent = "successful_logins" -> "Detected .. successful logins"
      [] intent = "brute_force" -> "Identified .. suspicious IPs"
      [] intent = "geographic_analysis" -> "Geographic analysis"
      [] OTHER -> "Found .. security events"

\* the place of a key in a distribution of the analysis, 0 when it has none
PlaceOf(dist, key) ==
    IF \E i \in 1..Len(dist) : dist[i].key = key
    THEN CHOOSE i \in 1..Len(dist) : dist[i].key = key
    ELSE 0

\* the numbers the sentence of an intent cites, read from an analysis of a
\* non-empty set
CitedCounts(intent, a) ==
    CASE intent = "failed_logins" ->
           << a.failed_login_analysis.total_failed,
              a.failed_login_analysis.unique_users >>
      [] intent = "successful_logins" ->
           << IF PlaceOf(a.event_types, "successful_login") = 0 THEN 0
              ELSE a.event_types[PlaceOf(a.event_types, "successful_login")].count,
              Len(a.top_users), a.top_users[1].count >>
      [] intent = "brute_force" ->
           << a.brute_force_analysis.suspicious_ips_count,
              a.brute_force_analysis.total_attempts >>
      [] intent = "geographic_analysis" ->
           << Len(a.countries), a.countries[1].count,
              IF PlaceOf(a.countries, "IN") = 0 THEN 0
              ELSE a.countries[PlaceOf(a.countries, "IN")].count >>
      [] OTHER ->
           << a.total_events, a.event_types[1].count, Len(a.countries) >>

\* C21: for a non-empty filtered set the summary is the sentence of the
\* query's intent (failed_logins, successful_logins, brute_force,
\* geographic_analysis, the generic sentence for every other intent), its
\* numbers are those of the analysis of the same filtered set, and its time
\* phrase is the literal 'yesterday' when time_range.unit is yesterday and
\* 'in the last {value} {unit}' for every other unit.
C21_SummaryTemplate ==
    (Processed /\ filtered_events # << >>) =>
      LET intent == parsed_query.intent
          time_range == parsed_query.entities.time_range IN
      /\ result.summary.template = TemplateOf(intent)
      /\ result.summary.counts = CitedCounts(intent, result.analysis)
      /\ result.analysis.total_events = Len(filtered_events)
      /\ intent = "failed_logins" =>
           result.summary.counts[1]
             = Cardinality(FilteredWith({"failed_login"}, AllSeverities, AllCountries))
      /\ intent = "successful_logins" =>
           result.summary.counts[1]
             = Cardinality(FilteredWith({"successful_login"}, AllSeverities,
                                        AllCountries))
      /\ intent = "geographic_analysis" =>
           result.summary.counts[3]
             = Cardinality(FilteredWith(AllTypes, AllSeverities, {"IN"}))
      /\ time_range.unit = "yesterday" =>
           result.summary.time_phrase = << "yesterday" >>
      /\ time_range.unit # "yesterday" =>
           result.summary.time_phrase
             = << "in the last ", time_range.value, " ", time_range.unit >>

\* C21 witness: a failed-logins query about yesterday was processed over a
\* store that has an event of yesterday.
C21_Witness ==
    /\ Processed
    /\ filtered_events # << >>
    /\ parsed_query.intent = "failed_logins"
    /\ parsed_query.entities.time_range.unit = "yesterday"
    /\ result.summary.template = "Found .. failed login attempts"
    /\ result.summary.time_phrase = << "yesterday" >>

\* the calendar hour of a filtered event, and the failed logins of an hour
HourOf(i) == to_datetime(filtered_events[i].timestamp) \div Hour
FailedInHour(h) == { i \in FailedLogins : HourOf(i) = h }

\* the hours that hold the most failed logins
PeakHours ==
    { h \in { HourOf(i) : i \in FailedLogins } :
        \A i \in FailedLogins :
          Cardinality(FailedInHour(HourOf(i))) <= Cardinality(FailedInHour(h)) }

\* C24: for a non-empty filtered set and intent failed_logins, total_failed
\* is the number of failed_login events of the set, unique_users and
\* unique_ips are the numbers of distinct user and source_ip values among
\* those events only, and peak_hour is the calendar hour that holds the most
\* failed_login events, the earliest such hour on a tie; without a
\* failed_login event the block is {0, 0, 0, ''}.
C24_FailedLoginBlock ==
    (Processed /\ filtered_events # << >> /\ parsed_query.intent = "failed_logins") =>
      LET fl == result.analysis.failed_login_analysis IN
      /\ DOMAIN fl = {"total_failed", "unique_users", "unique_ips", "peak_hour"}
      /\ fl.total_failed = Cardinality(FailedLogins)
      /\ fl.unique_users
           = Cardinality({ filtered_events[i].user : i \in FailedLogins })
      /\ fl.unique_ips
           = Cardinality({ filtered_events[i].source_ip : i \in FailedLogins })
      /\ FailedLogins = {} => fl.peak_hour = << >>
      /\ FailedLogins # {} =>
           fl.peak_hour
             = << Hour * (CHOOSE h \in PeakHours : \A g \in PeakHours : h <= g) >>

\* C24 witness: a failed-logins query over a set in which two hours tie for
\* the most failed logins, and other events are present.
C24_Witness ==
    /\ Processed
    /\ parsed_query.intent = "failed_logins"
    /\ Cardinality(PeakHours) = 2
    /\ Cardinality(FailedLogins) < Len(filtered_events)
    /\ result.analysis.failed_login_analysis.unique_users = 2

\* a failed-logins query over a non-empty set without failed logins
C24_NoFailedLogin ==
    /\ Processed
    /\ parsed_query.intent = "failed_logins"
    /\ filtered_events # << >>
    /\ FailedLogins = {}
    /\ result.analysis.failed_login_analysis.peak_hour = << >>

\* the key of the block _analyze_events adds for an intent
BlockOf(intent) ==
    CASE intent = "failed_logins" -> "failed_login_analysis"
      [] intent = "brute_force" -> "brute_force_analysis"
      [] intent = "geographic_analysis" -> "geographic_analysis"

BlockIntents == {"failed_logins", "brute_force", "geographic_analysis"}

\* C25: for a query whose intent is failed_logins, brute_force or
\* geographic_analysis the analysis holds the block of that intent, for an
\* empty filtered set too, so the fields of the analysis of an intent are the
\* same for an empty and for a non-empty filtered set.
C25_BlockAlways ==
    (Processed /\ parsed_query.intent \in BlockIntents) =>
      /\ BlockOf(parsed_query.intent) \in DOMAIN result.analysis
      /\ DOMAIN result.analysis
           = AnalysisKeys \cup {BlockOf(parsed_query.intent)}

\* C25, what the code does: the block of the intent is in the analysis
\* exactly when the filtered set is not empty.
C25_BlockIffNonEmpty ==
    (Processed /\ parsed_query.intent \in BlockIntents) =>
      (BlockOf(parsed_query.intent) \in DOMAIN result.analysis
         <=> filtered_events # << >>)

\* a query of each kind was processed over an empty and over a non-empty set
C25_EmptyReached ==
    /\ Processed
    /\ parsed_query.intent = "failed_logins"
    /\ filtered_events = << >>
    /\ DOMAIN result.analysis = AnalysisKeys

\* the values of top_n a query is compared with
OtherTopN == {5, 10, 20}

\* the parsed query with another top_n
WithTopN(n) == [parsed_query EXCEPT !.entities.top_n = n]

\* C28: top_n does not influence the result: over the same store and clock
\* reading, a parsed query that differs from the processed one only in
\* entities.top_n has the same filtered set, analysis, insights, summary and
\* chart_data; every distribution keeps its own cap, so a 'top 20' query gets
\* no more entries than a 'top 10' query.
C28_TopNIgnored ==
    Processed =>
      /\ \A n \in OtherTopN :
           /\ filter_events(sample_data, WithTopN(n).entities, now) = filtered_events
           /\ engine_process_query(WithTopN(n), sample_data, now, sort_kind,
                                   result.processing_time) = result
      /\ Len(result.analysis.top_users) <= 10
      /\ Len(result.analysis.top_source_ips) <= 10
      /\ Len(result.analysis.event_types) <= 10
      /\ \A k \in DOMAIN result.chart_data :
           k = "top_users" => Len(result.chart_data[k].labels) <= 10

\* C28 witness: a 'top 20' query was processed over a filtered set with more
\* than 10 and fewer than 20 source addresses; 10 of them are reported.
C28_Witness ==
    /\ Processed
    /\ parsed_query.entities.top_n = 20
    /\ Cardinality({ filtered_events[i].source_ip : i \in 1..Len(filtered_events) }) > 10
    /\ Cardinality({ filtered_events[i].source_ip : i \in 1..Len(filtered_events) }) < 20
    /\ Len(result.analysis.top_source_ips) = 10
    /\ "top_users" \in DOMAIN result.chart_data

\* the chart types suggested for the processed query
Suggested == { parsed_query.chart_types[i] : i \in 1..Len(parsed_query.chart_types) }

\* the chart types _prepare_chart_data has a branch for
Recognised == { k[1] : k \in KnownCharts }

\* C29: every chart type the lookup table suggests is one the chart data
\* preparer recognises, so for a query with a non-empty filtered set
\* chart_data has one entry per suggested chart type and is never empty.
C29_EverySuggestedChart ==
    (Processed /\ filtered_events # << >>) =>
      /\ Suggested \subseteq Recognised
      /\ DOMAIN result.chart_data = Suggested
      /\ DOMAIN result.chart_data # {}

\* C29, what the code does: chart_data has an entry for exactly the
\* suggested types that the preparer recognises.
C29_RecognisedCharts ==
    Processed => DOMAIN result.chart_data = Suggested \cap Recognised

\* a top-users query over a non-empty set was answered without any chart
C29_NoChart ==
    /\ Processed
    /\ filtered_events # << >>
    /\ parsed_query.intent = "top_users"
    /\ result.chart_data = << >>

(***************************************************************************)
(* The server: the handlers process_query (/api/query) and search_events   *)
(* (/api/search) run in threads of the Flask server, over the one          *)
(* nlp_processor and the one analytics_engine of the module.               *)
(***************************************************************************)
RECURSIVE lstrip(_)
lstrip(text) ==
    IF text # << >> /\ Head(text) \in Whitespace THEN lstrip(Tail(text)) ELSE text

RECURSIVE rstrip(_)
rstrip(text) ==
    IF text # << >> /\ text[Len(text)] \in Whitespace
    THEN rstrip(SubSeq(text, 1, Len(text) - 1)) ELSE text

\* (mutant) the text is taken as it is
strip_none(text) == text

\* str.strip()
strip(text) == rstrip(lstrip(text))

\* the proleptic Gregorian ordinal (date.toordinal()) of day 0 of the clock
BaseDayOrdinal == 739252

\* timedelta(hours= / days= / weeks= value) raises OverflowError beyond
\* 999999999 days
timedelta_overflows(time_range) ==
    CASE time_range.unit = "hours" -> time_range.value \div 24 > 999999999
      [] time_range.unit = "days" -> time_range.value > 999999999
      [] time_range.unit = "weeks" -> time_range.value > 999999999 \div 7
      [] OTHER -> FALSE

\* "now - timedelta(...)" raises OverflowError when the difference lies before
\* datetime.min, the first instant of day 1
date_out_of_range(time_range, clock) ==
    LET days == BaseDayOrdinal - 1 + clock \div Day IN
    CASE time_range.unit = "hours" ->
           time_range.value > days * 24 + (clock % Day) \div Hour
      [] time_range.unit = "days" -> time_range.value > days
      [] time_range.unit = "weeks" -> time_range.value > days \div 7
      [] OTHER -> FALSE

\* does _filter_by_time raise for this time range at this clock reading
filter_raises(time_range, clock) ==
    timedelta_overflows(time_range) \/ date_out_of_range(time_range, clock)

\* (mutant) the filter works on the store itself
store_after_filter_in_place(store, events) == events

\* "filtered_data = self.sample_data.copy()": the filter works on a copy and
\* on new lists, the store is left as it was
store_after_filter(store, events) == store

\* the responses of the handlers
empty_query_response == [status |-> 400, error |-> "Empty query"]

error_response(prefix, exception) ==
    [status |-> 500, error |-> prefix, exception |-> exception]

query_response(text, parsed, results, clock) ==
    [status |-> 200, success |-> TRUE, query |-> text, parsed_query |-> parsed,
     results |-> results, timestamp |-> clock]

search_response(events, filters) ==
    [status |-> 200, success |-> TRUE, events |-> table_sample(events),
     total_count |-> Len(events), filters |-> filters]

MaxRequests == 2

\* the JSON bodies of the requests to /api/query ...
QueryBodies ==
    { [query |-> text] : text \in
        { <<" ", " ", "\t">>,
          <<" ", "s", "h", "o", "w", " ", "e", "v", "e", "n", "t", "s", " ">>,
          <<"f", "a", "i", "l", "e", "d", " ", "l", "o", "g", "i", "n">>,
          <<"l", "a", "s", "t", " ", "8", "0", "0", "0", "0", "0", " ", "d", "a", "y", "s">> } }
    \cup { [limit |-> 10] }

\* ... and to /api/search
SearchBodies ==
    { [filters |-> [severity |-> "medium"]],
      [filters |-> [time_range |-> [unit |-> "weeks", value |-> 1], country |-> "IN"]] }

\* the stores the server may have generated
ServerDraws ==
    << [event_type |-> "failed_login", country |-> "IN", days_ago |-> 30,
        hours_ago |-> 0, minutes_ago |-> 0, source_ip |-> ip_addresses[1],
        user |-> "user1", risk_score |-> 40],
       [event_type |-> "malware_detected", country |-> "US", days_ago |-> 29,
        hours_ago |-> 23, minutes_ago |-> 30, source_ip |-> ip_addresses[2],
        user |-> "user2", risk_score |-> 90],
       [event_type |-> "failed_login", country |-> "US", days_ago |-> 25,
        hours_ago |-> 0, minutes_ago |-> 0, source_ip |-> ip_addresses[2],
        user |-> "user1", risk_score |-> 41] >>

ServerStores(base_time) ==
    { [i \in 1..n |-> make_event(i - 1, base_time, ServerDraws[i])] : n \in 2..3 }

NoResponse == [status |-> 0]

\* a request that has not arrived
NoRequest ==
    [pc |-> "idle", endpoint |-> "", body |-> << >>, query |-> << >>,
     parsed |-> NoParse, clock |-> 0, events |-> << >>, response |-> NoResponse]

InitServer ==
    /\ pc = "serving"
    /\ query = << >>
    /\ parsed_query = NoParse
    /\ sample_data \in ServerStores(12 * Hour)
    /\ now = 12 * Hour + 30 * Day + QueryDelay
    /\ query_context = << >>
    /\ time_filtered = << >>
    /\ filtered_events = << >>
    /\ refiltered = << >>
    /\ sort_kind \in SortKinds
    /\ analysis = << >>
    /\ result = << >>
    /\ chart_data = << >>
    /\ requests = [r \in 1..MaxRequests |-> NoRequest]
    /\ generated = << >>
    /\ security_events = << >>
    /\ outcome = ""
    /\ other_context = << >>
    /\ other_filtered = << >>

ServerUnchanged ==
    UNCHANGED << source_vars, compare_vars,
                 pc, nlp_vars, query_context, time_filtered, filtered_events,
                 refiltered, agg_vars, result, chart_data >>

\* a request arrives and a thread starts its handler
Accept(r, endpoint, body) ==
    /\ requests[r].pc \in {"idle", "responded"}
    /\ requests' = [requests EXCEPT ![r] =
                      [NoRequest EXCEPT !.pc = "accepted", !.endpoint = endpoint,
                                        !.body = body]]
    /\ UNCHANGED << sample_data, now >>
    /\ ServerUnchanged

\* process_query up to nlp_processor.parse_query(query)
QueryParse(r) ==
    /\ requests[r].pc = "accepted"
    /\ requests[r].endpoint = "/api/query"
    /\ LET text == strip(get_or(requests[r].body, "query", << >>)) IN
       requests' = [requests EXCEPT ![r] =
         IF text = << >>
         THEN [@ EXCEPT !.pc = "responded", !.response = empty_query_response]
         ELSE [@ EXCEPT !.pc = "parsed", !.query = text,
                        !.parsed = parse_query(text)]]
    /\ UNCHANGED << sample_data, now >>
    /\ ServerUnchanged

\* analytics_engine.process_query: get_filtered_data(entities), which reads
\* the clock and the store; an exception ends the handler with the 500 answer
QueryFilter(r) ==
    /\ requests[r].pc = "parsed"
    /\ LET entities == requests[r].parsed.entities IN
       IF filter_raises(entities.time_range, now)
       THEN /\ requests' = [requests EXCEPT ![r] =
                 [@ EXCEPT !.pc = "responded", !.clock = now,
                           !.response = error_response("Processing error",
                                                       "OverflowError")]]
            /\ UNCHANGED sample_data
       ELSE LET events == filter_events(sample_data, entities, now) IN
            /\ requests' = [requests EXCEPT ![r] =
                 [@ EXCEPT !.pc = "filtered", !.clock = now, !.events = events]]
            /\ sample_data' = store_after_filter(sample_data, events)
    /\ UNCHANGED now
    /\ ServerUnchanged

\* the rest of analytics_engine.process_query and the response
QueryRespond(r, processing_time) ==
    /\ requests[r].pc = "filtered"
    /\ LET req == requests[r] IN
       requests' = [requests EXCEPT ![r] =
         [@ EXCEPT !.pc = "responded",
                   !.response =
                      query_response(req.query, req.parsed,
                                     engine_results(req.parsed, req.events,
                                                    sort_kind, processing_time),
                                     now)]]
    /\ UNCHANGED << sample_data, now >>
    /\ ServerUnchanged

\* search_events
SearchEvents(r) ==
    /\ requests[r].pc = "accepted"
    /\ requests[r].endpoint = "/api/search"
    /\ LET filters == get_or(requests[r].body, "filters", << >>) IN
       IF filter_raises(context_time_range(filters), now)
       THEN /\ requests' = [requests EXCEPT ![r] =
                 [@ EXCEPT !.pc = "responded", !.clock = now,
                           !.response = error_response("", "OverflowError")]]
            /\ UNCHANGED sample_data
       ELSE LET events == filter_events(sample_data, filters, now) IN
            /\ requests' = [requests EXCEPT ![r] =
                 [@ EXCEPT !.pc = "responded", !.clock = now, !.events = events,
                           !.response = search_response(events, filters)]]
            /\ sample_data' = store_after_filter(sample_data, events)
    /\ UNCHANGED now
    /\ ServerUnchanged

NextServer ==
    \E r \in 1..MaxRequests :
         \/ \E body \in QueryBodies : Accept(r, "/api/query", body)
         \/ \E body \in SearchBodies : Accept(r, "/api/search", body)
         \/ QueryParse(r)
         \/ QueryFilter(r)
         \/ \E processing_time \in ProcessingTimes : QueryRespond(r, processing_time)
         \/ SearchEvents(r)

SpecServer == InitServer /\ [][NextServer]_vars

(***************************************************************************)
(* The server's claims, checked under SpecServer.                          *)
(***************************************************************************)
Answered(r) == requests[r].pc = "responded"
QueryRequest(r) == requests[r].endpoint = "/api/query"

\* the query text of the body of a request ('' when the body has none)
BodyText(r) ==
    IF "query" \in DOMAIN requests[r].body THEN requests[r].body.query ELSE << >>

\* a text with no character other than white space
Blank(text) == \A i \in 1..Len(text) : text[i] \in Whitespace

Succeeded(r) ==
    /\ Answered(r)
    /\ requests[r].response.status = 200
    /\ requests[r].response.success

\* C17: a query that is empty, or empty after stripping white space, is
\* answered with the error 'Empty query' and status 400; the parser and the
\* analytics engine are not called, the answer has no results object, and it
\* is the handler's own return value, not the answer of its exception branch.
C17_EmptyQuery ==
    \A r \in 1..MaxRequests :
      (QueryRequest(r) /\ Blank(BodyText(r))) =>
        /\ requests[r].pc \in {"accepted", "responded"}
        /\ requests[r].parsed = NoParse
        /\ requests[r].events = << >>
        /\ Answered(r) =>
             /\ requests[r].response = [status |-> 400, error |-> "Empty query"]
             /\ "results" \notin DOMAIN requests[r].response
             /\ "exception" \notin DOMAIN requests[r].response

\* C17 witness: a query of blanks and tabs has been answered.
C17_Witness ==
    \E r \in 1..MaxRequests :
      /\ QueryRequest(r)
      /\ Answered(r)
      /\ BodyText(r) # << >>
      /\ Blank(BodyText(r))
      /\ requests[r].response.status = 400

\* C18: every non-empty query text, also one with 'last N hours/days/weeks'
\* for an arbitrarily large N, is parsed, filtered and analysed, and the
\* handler answers success = true with a results object.
C18_NoQueryFails ==
    \A r \in 1..MaxRequests :
      (QueryRequest(r) /\ Answered(r) /\ ~Blank(BodyText(r))) =>
        /\ Succeeded(r)
        /\ "results" \in DOMAIN requests[r].response

\* what holds instead: a non-empty query fails exactly when the time window
\* cannot be computed
C18_FailsOnOverflow ==
    \A r \in 1..MaxRequests :
      (QueryRequest(r) /\ Answered(r) /\ ~Blank(BodyText(r))) =>
        IF filter_raises(requests[r].parsed.entities.time_range, requests[r].clock)
        THEN requests[r].response.status = 500
        ELSE Succeeded(r)

\* C19: no step of any handler, in any interleaving of the requests, changes
\* the event store: the same events, with the same values, in the same order.
C19_StoreReadOnly == [][sample_data' = sample_data]_vars

\* C19 witness: one request has been answered with fewer events than the
\* store holds while another is between its filter and its answer.
C19_Witness ==
    \E r1, r2 \in 1..MaxRequests :
      /\ Succeeded(r1)
      /\ Len(requests[r1].events) < Len(sample_data)
      /\ requests[r2].pc = "filtered"
      /\ Len(requests[r2].events) > 0

\* the parts of an answer that C20 names
Derived(r) ==
    LET response == requests[r].response IN
    [parsed_query |-> response.parsed_query,
     analysis |-> response.results.analysis,
     insights |-> response.results.insights,
     summary |-> response.results.summary,
     chart_data |-> response.results.chart_data,
     table_data |-> response.results.table_data,
     total_events |-> response.results.total_events]

\* C20: two invocations with the same query text, over the same event
\* collection and at the same clock reading, have the same parsed_query,
\* analysis, insights, summary, chart_data, table_data and total_events,
\* whatever was processed before them or runs beside them.
C20_Deterministic ==
    \A r1, r2 \in 1..MaxRequests :
      (/\ QueryRequest(r1) /\ QueryRequest(r2)
       /\ Succeeded(r1) /\ Succeeded(r2)
       /\ BodyText(r1) = BodyText(r2)
       /\ requests[r1].clock = requests[r2].clock)
        => Derived(r1) = Derived(r2)

\* C20 witness: the same query answered twice, with events found, the two
\* answers differing in their processing_time.
C20_Witness ==
    \E r1, r2 \in 1..MaxRequests :
      /\ r1 # r2
      /\ QueryRequest(r1) /\ QueryRequest(r2)
      /\ Succeeded(r1) /\ Succeeded(r2)
      /\ BodyText(r1) = BodyText(r2)
      /\ requests[r1].response.results.total_events > 0
      /\ requests[r1].response.results.processing_time
           # requests[r2].response.results.processing_time


\* the entities that restrict the retrieval of a parsed query
Restriction(r) ==
    [time_range |-> requests[r].parsed.entities.time_range,
     severity |-> requests[r].parsed.entities.severity,
     country |-> requests[r].parsed.entities.country]

\* the events of the store inside the window of the last 24 hours
LastDay ==
    LET recent(e) ==
          /\ now - 24 * Hour <= to_datetime(e.timestamp)
          /\ to_datetime(e.timestamp) <= now IN
    SelectSeq(sample_data, recent)

\* C27: the parser never sets an event_type filter, so the intent never
\* restricts which events are retrieved: two answered queries over the same
\* store and clock reading whose time_range, severity and country are equal
\* have the same filtered set, table_data and total_events whatever their
\* intents, and a failed_logins query without other restrictions retrieves the
\* events of every event_type in its window.
C27_IntentDoesNotFilter ==
    /\ \A r \in 1..MaxRequests :
         requests[r].pc \in {"parsed", "filtered", "responded"} /\ QueryRequest(r)
           /\ requests[r].parsed # NoParse
           => "event_type" \notin DOMAIN requests[r].parsed.entities
    /\ \A r1, r2 \in 1..MaxRequests :
         (/\ QueryRequest(r1) /\ QueryRequest(r2)
          /\ Succeeded(r1) /\ Succeeded(r2)
          /\ requests[r1].clock = requests[r2].clock
          /\ Restriction(r1) = Restriction(r2))
           => /\ requests[r1].events = requests[r2].events
              /\ requests[r1].response.results.table_data
                   = requests[r2].response.results.table_data
              /\ requests[r1].response.results.total_events
                   = requests[r2].response.results.total_events
    /\ \A r \in 1..MaxRequests :
         (/\ QueryRequest(r) /\ Succeeded(r)
          /\ requests[r].parsed.intent = "failed_logins"
          /\ Restriction(r) = [time_range |-> [unit |-> "hours", value |-> 24],
                               severity |-> None, country |-> None])
           => requests[r].response.results.table_data = LastDay

\* C27 witness: a failed-logins query and a general search with the same
\* restrictions were answered, and the answer to the failed-logins query
\* shows an event that is not a failed login.
C27_Witness ==
    \E r1, r2 \in 1..MaxRequests :
      /\ QueryRequest(r1) /\ QueryRequest(r2)
      /\ Succeeded(r1) /\ Succeeded(r2)
      /\ requests[r1].parsed.intent = "failed_logins"
      /\ requests[r2].parsed.intent = "general_search"
      /\ Restriction(r1) = Restriction(r2)
      /\ \E i \in 1..Len(requests[r1].response.results.table_data) :
           requests[r1].response.results.table_data[i].event_type = "malware_detected"
      /\ \E i \in 1..Len(requests[r1].response.results.table_data) :
           requests[r1].response.results.table_data[i].event_type = "failed_login"

(***************************************************************************)
(* Two calls of get_filtered_data over one store at one clock reading,     *)
(* with entities of which the second widens the time range of the first,   *)
(* adds a filter to it, or asks for yesterday where the first asks for     *)
(* today.                                                                  *)
(***************************************************************************)
\* what the random module draws for the events of the store: an event of the
\* last minute, events on the borders of the windows of one hour and of one
\* week, and events around the two midnights
CompareDraws ==
    { [event_type |-> d[1], country |-> d[2], days_ago |-> d[3], hours_ago |-> d[4],
       minutes_ago |-> d[5], source_ip |-> ip_addresses[1], user |-> user_names[1],
       risk_score |-> d[6]] :
      d \in { << "failed_login", "IN", 30, 0, 0, 40 >>,
              << "malware_detected", "US", 29, 23, 1, 85 >>,
              << "failed_login", "US", 29, 12, 0, 41 >>,
              << "port_scan", "IN", 29, 11, 59, 50 >>,
              << "failed_login", "IN", 23, 0, 1, 42 >>,
              << "malware_detected", "IN", 28, 12, 0, 86 >> } }

\* _generate_sample_data(count) for count <= MaxEvents
CompareStores(base_time) ==
    UNION { { [i \in 1..n |-> make_event(i - 1, base_time, rs[i])] :
              rs \in [1..n -> CompareDraws] } : n \in 1..MaxEvents }

\* the entities of a parsed query with a time range
TimeOnly(unit, value) ==
    [time_range |-> [unit |-> unit, value |-> value], severity |-> None,
     top_n |-> 10, country |-> None]

\* the pairs of entities of the two calls
ComparedPairs ==
    { << TimeOnly(unit, v[1]), TimeOnly(unit, v[2]) >> :
        unit \in {"hours", "days", "weeks"},
        v \in { << 0, 1 >>, << 1, 1 >>, << 1, 2 >>, << 1, 24 >>, << 2, 200 >> } }
    \cup { << TimeOnly("today", 1), TimeOnly("yesterday", 1) >> }
    \cup { << TimeOnly("weeks", 1), [TimeOnly("weeks", 1) EXCEPT !.severity = "medium"] >>,
           << TimeOnly("weeks", 1), [TimeOnly("weeks", 1) EXCEPT !.country = "IN"] >>,
           << [TimeOnly("weeks", 1) EXCEPT !.severity = "medium"],
              [TimeOnly("weeks", 1) EXCEPT !.severity = "medium", !.country = "IN"] >>,
           << [time_range |-> [unit |-> "weeks", value |-> 1]],
              [time_range |-> [unit |-> "weeks", value |-> 1],
               event_type |-> "failed_login"] >>,
           << [time_range |-> [unit |-> "weeks", value |-> 1], country |-> "IN"],
              [time_range |-> [unit |-> "weeks", value |-> 1], country |-> "IN",
               severity |-> "medium", event_type |-> "failed_login"] >> }

InitCompare ==
    /\ pc = "start"
    /\ query = << >>
    /\ parsed_query = NoParse
    /\ \E t0 \in {12 * Hour, 12 * Hour - 1} :
         /\ sample_data \in CompareStores(t0)
         /\ now = t0 + 30 * Day + QueryDelay
    /\ query_context = << >>
    /\ time_filtered = << >>
    /\ filtered_events = << >>
    /\ refiltered = << >>
    /\ sort_kind = "stable"
    /\ analysis = << >>
    /\ result = << >>
    /\ chart_data = << >>
    /\ requests = << >>
    /\ generated = << >>
    /\ security_events = << >>
    /\ outcome = ""
    /\ other_context = << >>
    /\ other_filtered = << >>

\* get_filtered_data(query_ctx), the first call
FirstCall(query_ctx) ==
    /\ pc = "start"
    /\ query_context' = query_ctx
    /\ time_filtered' = filter_by_time(sample_data, context_time_range(query_ctx), now)
    /\ filtered_events' = filter_events(sample_data, query_ctx, now)
    /\ pc' = "filtered"
    /\ UNCHANGED << source_vars, compare_vars, nlp_vars, sample_data, now,
                    refiltered, agg_vars, engine_vars >>

\* get_filtered_data(query_ctx), the second call
SecondCall(query_ctx) ==
    /\ pc = "filtered"
    /\ << query_context, query_ctx >> \in ComparedPairs
    /\ other_context' = query_ctx
    /\ other_filtered' = filter_events(sample_data, query_ctx, now)
    /\ pc' = "compared"
    /\ UNCHANGED << source_vars, nlp_vars, filter_vars, agg_vars, engine_vars >>

NextCompare ==
    \/ \E p \in ComparedPairs : FirstCall(p[1])
    \/ \E p \in ComparedPairs : SecondCall(p[2])

SpecCompare == InitCompare /\ [][NextCompare]_vars

(***************************************************************************)
(* The claim about two calls, checked under SpecCompare.                   *)
(***************************************************************************)
Compared == pc = "compared"

\* the events of a list, as a set
EventSet(events) == { events[i] : i \in 1..Len(events) }

\* the entities c with the keys of ks left out
Without(c, ks) == [k \in (DOMAIN c) \ ks |-> c[k]]

\* a key that restricts nothing in the entities c: absent or None
Unset(c, k) == k \notin DOMAIN c \/ c[k] = None

\* the second entities add filters on fields to the first and agree with
\* them on everything else
AddsFilters ==
    LET added == { k \in {"severity", "country", "event_type"} :
                     Unset(query_context, k) /\ ~Unset(other_context, k) } IN
    /\ added # {}
    /\ Without(other_context, added) = Without(query_context, added)

\* the second entities widen (or keep) the time range of the first
Widens ==
    /\ query_context.time_range.unit \in {"hours", "days", "weeks"}
    /\ other_context.time_range.unit = query_context.time_range.unit
    /\ query_context.time_range.value <= other_context.time_range.value
    /\ Without(other_context, {"time_range"}) = Without(query_context, {"time_range"})

TodayThenYesterday ==
    /\ query_context.time_range.unit = "today"
    /\ other_context.time_range.unit = "yesterday"

\* C30: over one store at one clock reading, for a unit among hours, days,
\* weeks, the set filtered with value a is a subset of the set filtered with
\* value b when a <= b; adding a severity, country or event_type filter to
\* the entities never adds an event to the result; the window of today and
\* the window of yesterday share no event.
C30_Monotone ==
    Compared =>
      /\ Widens => EventSet(filtered_events) \subseteq EventSet(other_filtered)
      /\ AddsFilters => EventSet(other_filtered) \subseteq EventSet(filtered_events)
      /\ TodayThenYesterday =>
           EventSet(filtered_events) \cap EventSet(other_filtered) = {}

\* C30 witness: the store holds an event of today and an event of yesterday;
\* the first call returned the one, the second call the other.
C30_Witness ==
    /\ Compared
    /\ TodayThenYesterday
    /\ filtered_events # << >>
    /\ other_filtered # << >>
    /\ Len(sample_data) > Len(filtered_events) + Len(other_filtered)

\* a wider time range returned more events
C30_Wider ==
    /\ Compared
    /\ Widens
    /\ filtered_events # << >>
    /\ Len(filtered_events) < Len(other_filtered)

\* an added filter removed some events and kept others
C30_Added ==
    /\ Compared
    /\ AddsFilters
    /\ other_filtered # << >>
    /\ Len(other_filtered) < Len(filtered_events)

(***************************************************************************)
(* The event sources: SecurityDataGenerator._generate_sample_data (app.py),*)
(* AdvancedDataGenerator.generate_training_data (data_generator.py), which *)
(* builds SecurityEvent objects and serialises them with to_dict           *)
(* (models.py), and ElasticSecurityClient.get_sample_security_events       *)
(* (api_clients.py).                                                       *)
(***************************************************************************)
\* class EventType(Enum) and class SeverityLevel(Enum): name and value of
\* each member
EventType ==
    << [name |-> "FAILED_LOGIN", value |-> "failed_login"],
       [name |-> "SUCCESSFUL_LOGIN", value |-> "successful_login"],
       [name |-> "MALWARE_DETECTED", value |-> "malware_detected"],
       [name |-> "FIREWALL_BLOCK", value |-> "firewall_block"],
       [name |-> "PRIVILEGE_ESCALATION", value |-> "privilege_escalation"],
       [name |-> "DATA_EXFILTRATION", value |-> "data_exfiltration"],
       [name |-> "PORT_SCAN", value |-> "port_scan"],
       [name |-> "BRUTE_FORCE_ATTEMPT", value |-> "brute_force_attempt"],
       [name |-> "SUSPICIOUS_CONNECTION", value |-> "suspicious_connection"] >>

SeverityLevel ==
    << [name |-> "CRITICAL", value |-> "critical"],
       [name |-> "HIGH", value |-> "high"],
       [name |-> "MEDIUM", value |-> "medium"],
       [name |-> "LOW", value |-> "low"] >>

\* EventType.FAILED_LOGIN, SeverityLevel.LOW, ...: the member of a name
member(enum, name) == enum[CHOOSE i \in 1..Len(enum) : enum[i].name = name]

\* (mutant) the timestamp is written without the fraction of its second
to_dict_whole_seconds(ev) ==
    [id |-> ev.event_id,
     timestamp |-> isoformat_Z(ev.timestamp - (ev.timestamp % Second)),
     event_type |-> ev.event_type.value,
     source_ip |-> ev.source_ip,
     destination_ip |-> ev.destination_ip,
     user |-> ev.user,
     severity |-> ev.severity.value,
     country |-> ev.country,
     message |-> ev.message,
     risk_score |-> ev.risk_score,
     bytes_sent |-> ev.bytes_sent,
     bytes_received |-> ev.bytes_received]

\* SecurityEvent.to_dict
to_dict(ev) ==
    [id |-> ev.event_id,
     timestamp |-> isoformat_Z(ev.timestamp),
     event_type |-> ev.event_type.value,
     source_ip |-> ev.source_ip,
     destination_ip |-> ev.destination_ip,
     user |-> ev.user,
     severity |-> ev.severity.value,
     country |-> ev.country,
     message |-> ev.message,
     risk_score |-> ev.risk_score,
     bytes_sent |-> ev.bytes_sent,
     bytes_received |-> ev.bytes_received]

\* the messages dict of _create_event: the text of an event type with the
\* values the f-string puts in
message_of(event_type, user, source_ip, bytes_sent, country) ==
    CASE event_type.name = "FAILED_LOGIN" ->
           << "Failed authentication attempt for user ", user, " from ", source_ip >>
      [] event_type.name = "SUCCESSFUL_LOGIN" ->
           << "Successful login for user ", user, " from ", source_ip >>
      [] event_type.name = "DATA_EXFILTRATION" ->
           << "Large data transfer (", bytes_sent, " bytes) detected from ",
              source_ip, " to ", country >>
      [] event_type.name = "PORT_SCAN" ->
           << "Port scanning activity detected from ", source_ip >>
      [] event_type.name = "BRUTE_FORCE_ATTEMPT" ->
           << "Multiple failed login attempts from ", source_ip,
              " targeting user ", user >>
      [] OTHER -> << "Security event detected" >>

\* AdvancedDataGenerator._create_event; given holds those of the keyword
\* arguments source_ip, country, bytes_sent that the caller passes (the
\* others are None), r what the random module drew
create_event(event_id, base_time, event_type, user, severity, risk_score, given, r) ==
    LET timestamp == base_time + timedelta(r.days_ago, r.hours_ago, r.minutes_ago)
        source_ip == IF "source_ip" \in DOMAIN given /\ given.source_ip # ""
                     THEN given.source_ip ELSE r.source_ip
        country == IF "country" \in DOMAIN given /\ given.country # ""
                   THEN given.country ELSE r.country IN
    [event_id |-> event_id,
     timestamp |-> timestamp,
     event_type |-> event_type,
     source_ip |-> source_ip,
     destination_ip |-> r.destination_ip,
     user |-> user,
     severity |-> severity,
     country |-> country,
     message |-> message_of(event_type, user, source_ip,
                            get_or(given, "bytes_sent", None), country),
     risk_score |-> risk_score,
     bytes_sent |-> get_or(given, "bytes_sent", r.bytes_sent),
     bytes_received |-> r.bytes_received]

\* one turn of the loop of _generate_normal_activity
normal_event(i, base_time, r) ==
    IF r.successful
    THEN create_event(<< "norm_", i >>, base_time,
                      member(EventType, "SUCCESSFUL_LOGIN"), r.user,
                      member(SeverityLevel, "LOW"), r.risk_score, << >>, r)
    ELSE create_event(<< "norm_", i >>, base_time,
                      member(EventType, "FAILED_LOGIN"), r.user,
                      member(SeverityLevel, "MEDIUM"), r.risk_score, << >>, r)

\* one turn of the loop of _generate_attack_patterns: attack_types are the
\* three keys of attack_patterns, so the generic branch is never taken
attack_event(i, base_time, r) ==
    CASE r.attack_type = "brute_force" ->
           create_event(<< "atk_bf_", i >>, base_time,
                        member(EventType, "BRUTE_FORCE_ATTEMPT"), r.user,
                        member(SeverityLevel, "HIGH"), r.risk_score,
                        [source_ip |-> r.pattern_ip], r)
      [] r.attack_type = "port_scan" ->
           create_event(<< "atk_ps_", i >>, base_time,
                        member(EventType, "PORT_SCAN"), "unknown",
                        member(SeverityLevel, "MEDIUM"), r.risk_score,
                        [source_ip |-> r.pattern_ip], r)
      [] r.attack_type = "data_exfiltration" ->
           create_event(<< "atk_de_", i >>, base_time,
                        member(EventType, "DATA_EXFILTRATION"), r.user,
                        member(SeverityLevel, "CRITICAL"), r.risk_score,
                        [country |-> r.target_country,
                         bytes_sent |-> r.large_bytes_sent], r)

\* int(sample_size * 0.7) of generate_training_data
normal_events(sample_size) == (sample_size * 7) \div 10

\* the names the module api_clients binds: its imports (lines 2-7), its
\* logger and its classes
api_clients_globals ==
    { "requests", "json", "logging", "datetime", "timedelta", "Dict", "List",
      "Any", "Optional", "pd", "logger", "ThreatIntelligenceAPI",
      "WazuhAPIClient", "ElasticSecurityClient" }

\* event_templates of get_sample_security_events
event_templates ==
    << [event_type |-> "failed_login", severity |-> "medium", risk_score |-> 65],
       [event_type |-> "successful_login", severity |-> "low", risk_score |-> 10],
       [event_type |-> "malware_detected", severity |-> "critical", risk_score |-> 95],
       [event_type |-> "brute_force", severity |-> "high", risk_score |-> 80],
       [event_type |-> "suspicious_download", severity |-> "medium", risk_score |-> 55] >>

\* the event dict of one turn of the loop of get_sample_security_events
elastic_event(i, base_time, r) ==
    [id |-> << "elastic-", i >>,
     timestamp |-> isoformat_Z(base_time - r.hours_ago * Hour),
     event_type |-> event_templates[r.template].event_type,
     source_ip |-> r.source_ip,
     user |-> r.user,
     severity |-> event_templates[r.template].severity,
     risk_score |-> event_templates[r.template].risk_score + r.risk_offset,
     country |-> r.country]

\* ElasticSecurityClient.get_sample_security_events: the first turn of the
\* loop evaluates random.choice; a name the module does not bind raises
\* NameError there, before any event is appended
get_sample_security_events(base_time, draws) ==
    IF "random" \in api_clients_globals
    THEN [raised |-> "",
          events |-> [i \in 1..Len(draws) |-> elastic_event(i - 1, base_time, draws[i])]]
    ELSE [raised |-> "NameError", events |-> << >>]


(***************************************************************************)
(* One call of an event source: the loop of _generate_sample_data(count),  *)
(* generate_training_data(sample_size) with its two loops and its shuffle, *)
(* or get_sample_security_events().                                        *)
(***************************************************************************)
SampleSize == 3

\* what the random module draws in one turn of _generate_sample_data: every
\* event type with the largest risk score of its range, the most frequent
\* type with the smallest one too
SampleDraws ==
    { [event_type |-> event_types[k], country |-> "IN", days_ago |-> 30,
       hours_ago |-> 23, minutes_ago |-> 59, source_ip |-> ip_addresses[1],
       user |-> user_names[1],
       risk_score |-> CHOOSE x \in risk_range(event_types[k]) :
                        \A y \in risk_range(event_types[k]) : y <= x] :
      k \in 1..Len(event_types) }
    \cup { [event_type |-> "successful_login", country |-> "IN", days_ago |-> 0,
            hours_ago |-> 0, minutes_ago |-> 0, source_ip |-> ip_addresses[1],
            user |-> user_names[1], risk_score |-> 1] }

\* what _create_event draws, at the two ends of its ranges
CreateDraws ==
    { [days_ago |-> 0, hours_ago |-> 0, minutes_ago |-> 0,
       source_ip |-> "10.0.0.1", destination_ip |-> "192.168.1.1",
       country |-> "US", bytes_sent |-> 0, bytes_received |-> 0],
      [days_ago |-> 30, hours_ago |-> 23, minutes_ago |-> 59,
       source_ip |-> "223.255.255.254", destination_ip |-> "192.168.255.254",
       country |-> "SG", bytes_sent |-> 100000, bytes_received |-> 50000] }

\* what one turn of _generate_normal_activity draws
NormalDraws ==
    { [successful |-> b, risk_score |-> IF b THEN 1 ELSE 31,
       user |-> "john.smith0"] @@ c : b \in BOOLEAN, c \in {c \in CreateDraws : c.days_ago = 0} }
    \cup { [successful |-> b, risk_score |-> IF b THEN 30 ELSE 60,
            user |-> "susan.wilson149"] @@ c :
           b \in BOOLEAN, c \in {c \in CreateDraws : c.days_ago = 30} }

\* what one turn of _generate_attack_patterns draws
AttackDraws ==
    { [attack_type |-> a[1], risk_score |-> a[2], user |-> a[3],
       pattern_ip |-> a[4], target_country |-> "CN",
       large_bytes_sent |-> 1000000] @@ c :
      a \in { << "brute_force", 70, "admin", "182.162.1.1" >>,
              << "brute_force", 95, "root", "203.113.255.255" >>,
              << "port_scan", 60, "", "198.51.1.1" >>,
              << "port_scan", 80, "", "192.0.2.255.255" >>,
              << "data_exfiltration", 80, "john.smith0", "" >>,
              << "data_exfiltration", 100, "susan.wilson149", "" >> },
      c \in {c \in CreateDraws : c.days_ago = 30} }

\* the orders random.shuffle can leave n events in
Orders(n) == { f \in [1..n -> 1..n] : \A i, j \in 1..n : f[i] = f[j] => i = j }

\* utcnow() when the source is called: on a whole second and inside one
CallTimes == { 30 * Day + 12 * Hour, 30 * Day + 12 * Hour + 1 }

InitSources ==
    /\ pc = "start"
    /\ query = << >>
    /\ parsed_query = NoParse
    /\ sample_data = << >>
    /\ now \in CallTimes
    /\ query_context = << >>
    /\ time_filtered = << >>
    /\ filtered_events = << >>
    /\ refiltered = << >>
    /\ sort_kind = "stable"
    /\ analysis = << >>
    /\ result = << >>
    /\ chart_data = << >>
    /\ requests = << >>
    /\ generated = << >>
    /\ security_events = << >>
    /\ outcome = ""
    /\ other_context = << >>
    /\ other_filtered = << >>

SourcesUnchanged ==
    UNCHANGED << nlp_vars, filter_vars, agg_vars, engine_vars, compare_vars >>

\* one turn of the loop of _generate_sample_data(MaxEvents), the return with
\* the last one
GenerateSampleData(r) ==
    /\ pc \in {"start", "_generate_sample_data"}
    /\ Len(generated) < MaxEvents
    /\ generated' = Append(generated,
                           make_event(Len(generated), now - timedelta(30, 0, 0), r))
    /\ pc' = IF Len(generated') = MaxEvents THEN "done" ELSE "_generate_sample_data"
    /\ outcome' = IF Len(generated') = MaxEvents THEN "returned" ELSE ""
    /\ UNCHANGED security_events
    /\ SourcesUnchanged

\* one turn of the loop of _generate_normal_activity, called by
\* generate_training_data(SampleSize)
GenerateNormalActivity(r) ==
    /\ pc \in {"start", "_generate_normal_activity"}
    /\ Len(generated) < normal_events(SampleSize)
    /\ LET event == normal_event(Len(generated), now - timedelta(30, 0, 0), r) IN
       /\ security_events' = Append(security_events, event)
       /\ generated' = Append(generated, to_dict(event))
    /\ pc' = "_generate_normal_activity"
    /\ UNCHANGED outcome
    /\ SourcesUnchanged

\* one turn of the loop of _generate_attack_patterns, once the normal
\* activity is complete
GenerateAttackPatterns(r) ==
    /\ \/ pc = "_generate_attack_patterns"
       \/ pc = "_generate_normal_activity"
       \/ pc = "start" /\ normal_events(SampleSize) = 0
    /\ Len(generated) >= normal_events(SampleSize)
    /\ Len(generated) < SampleSize
    /\ LET event == attack_event(Len(generated) - normal_events(SampleSize),
                                 now - timedelta(30, 0, 0), r) IN
       /\ security_events' = Append(security_events, event)
       /\ generated' = Append(generated, to_dict(event))
    /\ pc' = "_generate_attack_patterns"
    /\ UNCHANGED outcome
    /\ SourcesUnchanged

\* random.shuffle(events) and the return of generate_training_data
ShuffleAndReturn(order) ==
    /\ pc \in {"_generate_normal_activity", "_generate_attack_patterns"}
    /\ Len(generated) = SampleSize
    /\ generated' = [i \in 1..SampleSize |-> generated[order[i]]]
    /\ outcome' = "returned"
    /\ pc' = "done"
    /\ UNCHANGED security_events
    /\ SourcesUnchanged

\* ElasticSecurityClient().get_sample_security_events()
GetSampleSecurityEvents ==
    /\ pc = "start"
    /\ LET call == get_sample_security_events(now, << >>) IN
       /\ generated' = call.events
       /\ outcome' = IF call.raised = "" THEN "returned" ELSE call.raised
    /\ pc' = "done"
    /\ UNCHANGED security_events
    /\ SourcesUnchanged

NextSources ==
    \/ \E r \in SampleDraws : GenerateSampleData(r)
    \/ \E r \in NormalDraws : GenerateNormalActivity(r)
    \/ \E r \in AttackDraws : GenerateAttackPatterns(r)
    \/ \E order \in Orders(SampleSize) : ShuffleAndReturn(order)
    \/ GetSampleSecurityEvents

SpecSources == InitSources /\ [][NextSources]_vars

(***************************************************************************)
(* The event sources' claims, checked under SpecSources.                   *)
(***************************************************************************)
\* EventType(value), SeverityLevel(value): the member of a value
of_value(enum, value) == enum[CHOOSE i \in 1..Len(enum) : enum[i].value = value]

\* a serialised event read back: the timestamp parsed as _filter_by_time
\* parses it, the enumerated fields looked up by value
ReadBack(d) ==
    [event_id |-> d.id,
     timestamp |-> fromisoformat(replace_Z(d.timestamp)),
     event_type |-> of_value(EventType, d.event_type),
     source_ip |-> d.source_ip,
     destination_ip |-> d.destination_ip,
     user |-> d.user,
     severity |-> of_value(SeverityLevel, d.severity),
     country |-> d.country,
     message |-> d.message,
     risk_score |-> d.risk_score,
     bytes_sent |-> d.bytes_sent,
     bytes_received |-> d.bytes_received]

\* C22: every SecurityEvent that was built has its serialised form in the
\* events list, and reading that form back (the timestamp as the event
\* filter parses it) gives the same value for every field; the timestamp
\* read back is the instant of the original.
C22_RoundTrip ==
    \A i \in 1..Len(security_events) :
      \E j \in 1..Len(generated) :
        /\ generated[j].id = security_events[i].event_id
        /\ ReadBack(generated[j]) = security_events[i]
        /\ fromisoformat(replace_Z(generated[j].timestamp))
             = security_events[i].timestamp

\* C22 witness: a shuffled collection was returned that holds an event whose
\* timestamp lies inside a second, and one of each severity member used.
C22_Witness ==
    /\ outcome = "returned"
    /\ Len(security_events) = SampleSize
    /\ \E i \in 1..Len(security_events) :
         /\ security_events[i].timestamp % Second # 0
         /\ generated[1].id # security_events[1].event_id
         /\ security_events[i].event_type.name = "DATA_EXFILTRATION"


\* the values of the two enumerations of the data model
EventTypeValues == { EventType[k].value : k \in 1..Len(EventType) }
SeverityValues == { SeverityLevel[k].value : k \in 1..Len(SeverityLevel) }

\* an event within the ranges of the data model
WithinDataModel(e) ==
    /\ e.risk_score \in 0..100
    /\ e.event_type \in EventTypeValues
    /\ e.severity \in SeverityValues

DistinctIds(events) ==
    \A i, j \in 1..Len(events) : events[i].id = events[j].id => i = j

C26_AppendedEvents ==
    /\ \A i \in 1..Len(generated) : WithinDataModel(generated[i])
    /\ DistinctIds(generated)
    /\ outcome = "NameError" => generated = << >>

\* a returned collection with the largest risk score and several event types
C26_Returned ==
    /\ outcome = "returned"
    /\ \E i, j \in 1..Len(generated) :
         /\ generated[i].risk_score = 100
         /\ generated[i].event_type # generated[j].event_type

=============================================================================
